---- MODULE Spec2Model ----
(***************************************************************************)
(* Radial layout and rendering pipeline of pyastro                         *)
(* (src/src/pyastro/rendering/svg.py) and the chart data it consumes       *)
(* (src/src/pyastro/astro/__init__.py).                                    *)
(*                                                                         *)
(* Numbers are fixed point: angles are integers in hundredths of a degree  *)
(* (a full turn is 36000), lengths are integers in tenths of a pixel.      *)
(* Python's float division is the floor division of these integers.        *)
(***************************************************************************)
EXTENDS Integers, Sequences, FiniteSets, TLC

VARIABLES
    pc,             \* position of the running function
    run,            \* number of the current invocation (1-based)
    positions,      \* chart.planet_positions
    aspects,        \* chart.aspects
    houses,         \* chart.houses
    theme,          \* SvgTheme instance
    angle,          \* angle argument of chart_to_svg
    threshold_deg,  \* threshold_deg argument of _cluster_planet_positions
    clusters,       \* value returned by _cluster_planet_positions
    cluster,        \* cluster argument of _distribute_cluster
    base_angle,     \* base_angle argument of _distribute_cluster
    base_r,         \* base_r argument of _distribute_cluster
    max_allowed_r,  \* max_allowed_r argument of _distribute_cluster
    result,         \* value returned by _distribute_cluster
    edges_in,       \* the aspect list _conjunction_components reads
    adj_keys,       \* keys of the adj dict, in insertion order
    adj,            \* adj dict: planet -> set of planets
    visited,        \* visited set
    stack,          \* DFS stack
    comp,           \* component being collected
    comps,          \* components collected so far / returned
    node_i,         \* index of the `for node in adj` loop
    angle_self,     \* an Angle object: value and from_0_to_360
    angle_op,       \* the operation that produced angle_self and its operands
    angle_text,     \* fields of the string returned by Angle.__format__
    base_angles,    \* base_angles of one component in chart_to_svg
    arc,            \* (start_a, end_a) of its arc before the end padding
    arc_flags,      \* (large_arc, orientation) written into its path
    data,           \* data argument of SvgTheme.from_dict
    raised,         \* field named by the ValueError of from_dict, "" if none
    base_symbol_r,  \* base_symbol_r argument of _layout_planets
    zodiac_r_inner, \* zodiac_r_inner argument of _layout_planets
    coord_text,     \* text argument of parse_coord, a sequence of characters
    coord_kind,     \* kind argument of parse_coord
    coord,          \* outcome of parse_coord: the exception or the value
    parade_positions, \* planet_positions: longitude on the date find_planet_parades examines
    min_planets,    \* min_planets argument of find_planet_parades
    parades,        \* the planet tuples find_planet_parades yields for the date
    clazz,          \* dataclass handed to from_dict_dataclass: its field specs
    obj,            \* attributes of the object from_dict_dataclass returns
    dt,             \* outcome of datetime_from_dict
    layout,         \* value returned by _layout_planets
    out,            \* the output buffer of chart_to_svg
    prev            \* results kept from the previous invocation

vars == <<pc, run, positions, aspects, houses, theme, angle, threshold_deg, clusters,
          cluster, base_angle, base_r, max_allowed_r, result, edges_in,
          adj_keys, adj, visited, stack, comp, comps, node_i, angle_self,
          angle_op, angle_text, base_angles, arc, arc_flags,
          data, raised, coord_text, coord_kind, coord, parade_positions,
          min_planets,
          parades, clazz, obj, dt,
          base_symbol_r, zodiac_r_inner, layout, out, prev>>

chartVars == <<positions, aspects, houses>>
clusterVars == <<threshold_deg, clusters>>
distVars == <<cluster, base_angle, base_r, max_allowed_r, result>>
dfsVars == <<edges_in, adj_keys, adj, visited, stack, comp, comps, node_i>>
angleVars == <<angle_self, angle_op, angle_text>>
arcVars == <<base_angles, arc, arc_flags>>
themeArgs == <<data, raised>>
layoutArgs == <<base_symbol_r, zodiac_r_inner>>
utilVars == <<coord_text, coord_kind, coord, parade_positions, min_planets, parades,
              clazz, obj, dt>>
renderVars == <<layout, out>>

----------------------------------------------------------------------------
(* Bounds *)

MaxPlanets == 3     \* planets in a chart
MaxCluster == 6     \* members of a cluster handed to _distribute_cluster
MaxRuns == 3        \* invocations compared with each other

----------------------------------------------------------------------------
(* Units and small helpers *)

Deg(d) == d * 100
Px(p) == p * 10
Circle == Deg(360)
HalfCircle == Deg(180)

Min(a, b) == IF a <= b THEN a ELSE b
Max(a, b) == IF a >= b THEN a ELSE b
Abs(a) == IF a < 0 THEN -a ELSE a

\* list(Planet): the members of the Planet enum in definition order
PlanetList == <<"SUN", "MOON", "MERCURY", "VENUS", "MARS", "JUPITER", "SATURN",
                "URANUS", "NEPTUNE", "PLUTO", "NORTH_NODE", "SOUTH_NODE">>

\* Planet.code
PlanetCode(p) ==
    CASE p = "SUN" -> 0 [] p = "MOON" -> 1 [] p = "MERCURY" -> 2
      [] p = "VENUS" -> 3 [] p = "MARS" -> 4 [] p = "JUPITER" -> 5
      [] p = "SATURN" -> 6 [] p = "URANUS" -> 7 [] p = "NEPTUNE" -> 8
      [] p = "PLUTO" -> 9 [] p = "NORTH_NODE" -> 10 [] p = "SOUTH_NODE" -> 10

SeqSet(s) == {s[i] : i \in DOMAIN s}

RECURSIVE Flatten(_)
Flatten(ss) == IF ss = <<>> THEN <<>> ELSE Head(ss) \o Flatten(Tail(ss))

----------------------------------------------------------------------------
(* _cluster_planet_positions *)

\* sorted(chart.planet_positions, key=lambda p: p.longitude): stable
RECURSIVE InsertByLongitude(_, _)
InsertByLongitude(s, pp) ==
    IF s = <<>> THEN <<pp>>
    ELSE IF Head(s).longitude <= pp.longitude
         THEN <<Head(s)>> \o InsertByLongitude(Tail(s), pp)
         ELSE <<pp>> \o s

RECURSIVE SortedByLongitude(_)
SortedByLongitude(ps) ==
    IF ps = <<>> THEN <<>>
    ELSE InsertByLongitude(SortedByLongitude(SubSeq(ps, 1, Len(ps) - 1)),
                           ps[Len(ps)])

\* delta between a position and the previous one in the scan
ScanDelta(lon, prev_lon) ==
    LET d == (lon - prev_lon) % Circle
    IN  IF d > HalfCircle THEN Circle - d ELSE d

\* the for loop: returns the closed clusters and the open one
RECURSIVE ClusterScan(_, _, _, _, _)
ClusterScan(ps, i, cls, current, thr) ==
    IF i > Len(ps) THEN [clusters |-> cls, current |-> current]
    ELSE IF i = 1 THEN ClusterScan(ps, 2, cls, <<ps[1]>>, thr)
    ELSE IF ScanDelta(ps[i].longitude, ps[i - 1].longitude) < thr
         THEN ClusterScan(ps, i + 1, cls, Append(current, ps[i]), thr)
         ELSE ClusterScan(ps, i + 1, Append(cls, current), <<ps[i]>>, thr)

\* (positions[0].longitude - positions[-1].longitude) % 360
WrapGapSwapped(ps) == (ps[Len(ps)].longitude - ps[1].longitude) % Circle
WrapGap(ps) == (ps[1].longitude - ps[Len(ps)].longitude) % Circle

\* the wrap-around merge after the loop
WrapMergeNever(ps, cls, current, thr) == Append(cls, current)
WrapMergeKeepsCurrent(ps, cls, current, thr) ==
    IF cls # <<>> /\ WrapGap(ps) < thr
    THEN Append([cls EXCEPT ![1] = cls[1] \o current], current)
    ELSE Append(cls, current)
WrapMerge(ps, cls, current, thr) ==
    IF cls # <<>> /\ WrapGap(ps) < thr
    THEN [cls EXCEPT ![1] = cls[1] \o current]
    ELSE Append(cls, current)

ClusterPlanetPositions(planet_positions, thr) ==
    LET ps == SortedByLongitude(planet_positions)
    IN  IF ps = <<>> THEN <<>>
        ELSE LET s == ClusterScan(ps, 1, <<>>, <<>>, thr)
             IN  WrapMerge(ps, s.clusters, s.current, thr)

----------------------------------------------------------------------------
(* Chart: planet positions and the aspects derived from them *)

AspectKinds == <<"CONJUNCTION", "SEXTILE", "SQUARE", "TRINE", "OPPOSITION">>

\* AspectKind.angle
KindAngle(k) ==
    CASE k = "CONJUNCTION" -> Deg(0) [] k = "SEXTILE" -> Deg(60)
      [] k = "SQUARE" -> Deg(90) [] k = "TRINE" -> Deg(120)
      [] k = "OPPOSITION" -> Deg(180)

\* ASPECT_ORBS
AspectOrb(k) ==
    CASE k = "CONJUNCTION" -> Deg(8) [] k = "SEXTILE" -> Deg(6)
      [] k = "SQUARE" -> Deg(6) [] k = "TRINE" -> Deg(6)
      [] k = "OPPOSITION" -> Deg(8)

\* PLANET_ORBS
PlanetOrbs == [p \in {"NORTH_NODE", "SOUTH_NODE"} |-> Deg(5)]

\* Aspect.aspect_or_none: <<aspect>>, or <<>> for None
AspectOrNoneFirstOverrideOnly(planet1, planet2, aspect_type, max_orb) ==
    IF planet1.planet = planet2.planet THEN <<>>
    ELSE IF planet1.planet = "SOUTH_NODE" \/ planet2.planet = "SOUTH_NODE"
    THEN <<>>
    ELSE LET orb1 == IF planet1.planet \in DOMAIN PlanetOrbs
                     THEN Min(max_orb, PlanetOrbs[planet1.planet])
                     ELSE max_orb
             a0 == Abs(planet1.longitude - planet2.longitude) % Circle
             a == IF a0 > HalfCircle THEN Circle - a0 ELSE a0
         IN  IF Abs(a - KindAngle(aspect_type)) > orb1 THEN <<>>
             ELSE <<[planet1 |-> planet1.planet, planet2 |-> planet2.planet,
                     angle |-> a, kind |-> aspect_type, max_orb |-> orb1]>>
AspectOrNone(planet1, planet2, aspect_type, max_orb) ==
    IF planet1.planet = planet2.planet THEN <<>>
    ELSE IF planet1.planet = "SOUTH_NODE" \/ planet2.planet = "SOUTH_NODE"
    THEN <<>>
    ELSE LET orb1 == IF planet1.planet \in DOMAIN PlanetOrbs
                     THEN Min(max_orb, PlanetOrbs[planet1.planet])
                     ELSE max_orb
             orb2 == IF planet2.planet \in DOMAIN PlanetOrbs
                     THEN Min(orb1, PlanetOrbs[planet2.planet])
                     ELSE orb1
             a0 == Abs(planet1.longitude - planet2.longitude) % Circle
             a == IF a0 > HalfCircle THEN Circle - a0 ELSE a0
         IN  IF Abs(a - KindAngle(aspect_type)) > orb2 THEN <<>>
             ELSE <<[planet1 |-> planet1.planet, planet2 |-> planet2.planet,
                     angle |-> a, kind |-> aspect_type, max_orb |-> orb2]>>

\* key of AspectList.sorted_by_kind_and_planets, compared as Python tuples
AspectKeyLess(a, b) ==
    \/ KindAngle(a.kind) < KindAngle(b.kind)
    \/ /\ KindAngle(a.kind) = KindAngle(b.kind)
       /\ \/ /\ a.planet1 # b.planet1
             /\ PlanetCode(a.planet1) < PlanetCode(b.planet1)
          \/ /\ a.planet1 = b.planet1
             /\ a.planet2 # b.planet2
             /\ PlanetCode(a.planet2) < PlanetCode(b.planet2)

RECURSIVE InsertAspect(_, _)
InsertAspect(s, a) ==
    IF s = <<>> THEN <<a>>
    ELSE IF AspectKeyLess(a, Head(s)) THEN <<a>> \o s
         ELSE <<Head(s)>> \o InsertAspect(Tail(s), a)

RECURSIVE SortedByKindAndPlanets(_)
SortedByKindAndPlanets(as) ==
    IF as = <<>> THEN <<>>
    ELSE InsertAspect(SortedByKindAndPlanets(SubSeq(as, 1, Len(as) - 1)),
                      as[Len(as)])

\* get_aspects: combinations(planet_positions, 2) x aspect types, in order
RECURSIVE GetAspectsFrom(_, _, _, _)
GetAspectsFrom(ps, i, j, k) ==
    IF i >= Len(ps) THEN <<>>
    ELSE IF j > Len(ps) THEN GetAspectsFrom(ps, i + 1, i + 2, 1)
    ELSE IF k > Len(AspectKinds) THEN GetAspectsFrom(ps, i, j + 1, 1)
    ELSE AspectOrNone(ps[i], ps[j], AspectKinds[k], AspectOrb(AspectKinds[k]))
             \o GetAspectsFrom(ps, i, j, k + 1)

GetAspects(planet_positions) == GetAspectsFrom(planet_positions, 1, 2, 1)

\* Chart.__init__: the aspects of a chart are those of its positions
ChartAspects(planet_positions) ==
    SortedByKindAndPlanets(GetAspects(planet_positions))

\* PlanetPosition: planet and longitude (already reduced mod 360 by __post_init__)
PlanetPosition(planet, longitude) ==
    [planet |-> planet, longitude |-> longitude % Circle]

\* planet_positions of a chart over the first n planets, one longitude each
ChartPositions(n, lons) == [i \in 1..n |-> PlanetPosition(PlanetList[i], lons[i])]

----------------------------------------------------------------------------
(* SvgTheme defaults (class SvgTheme) *)

DefaultTheme ==
    [clockwise |-> FALSE,
     zero_at |-> Deg(180),
     width |-> Px(800),
     height |-> Px(800),
     margin |-> Px(40),
     planet_font_size |-> Px(20),
     planet_symbol_offset |-> Px(25),
     tick_length |-> Px(6),
     tick_limb_width |-> Px(4),
     min_planet_separation_deg |-> Deg(4),
     cluster_min_pixel_gap |-> Px(16),
     max_cluster_fan_deg |-> Deg(14),
     planet_stack_spacing_px |-> Px(14),
     max_planet_stack_layers |-> 2,
     allow_radial_stack |-> TRUE,
     show_aspect_symbols |-> TRUE,
     highlight_conjunctions |-> TRUE,
     conjunction_arc_inner_inset |-> Px(0),
     conjunction_arc_end_padding_deg |-> 120,
     show_planet_base_points |-> TRUE,
     house_outer_ratio |-> 100,
     zodiac_outer_ratio |-> 86,
     zodiac_inner_ratio |-> 75,
     planet_inner_ratio |-> 60,
     house_label_tangent_offset_px |-> Px(16),
     house_label_angle_offset_deg |-> 50,
     manual_shifts |-> <<>>]

----------------------------------------------------------------------------
(* _distribute_cluster *)

\* if base_r <= 0: base_r = 1
EffectiveBaseR(b_r) == IF b_r <= 0 THEN Px(1) ELSE b_r

\* min_gap_deg = cluster_min_pixel_gap / ((pi / 180) * base_r), pi = 355/113
MinGapDegAtUnitRadius(th, b_r) ==
    (th.cluster_min_pixel_gap * 180 * 100 * 113) \div (355 * Px(1))
MinGapDeg(th, b_r) ==
    (th.cluster_min_pixel_gap * 180 * 100 * 113) \div (355 * b_r)

\* total_span_needed = min_gap_deg * (n - 1)
TotalSpanNeeded(n, th, b_r) == MinGapDeg(th, b_r) * (n - 1)

\* total_span = min(total_span_needed, theme.max_cluster_fan_deg)
TotalSpanUnclamped(needed, th) == needed
TotalSpan(needed, th) == Min(needed, th.max_cluster_fan_deg)

\* offsets of the n members, -span/2 .. +span/2
OffsetsFromBase(n, total_span) ==
    IF n = 2 THEN <<0, total_span>>
    ELSE [i \in 1..n |-> (i - 1) * (total_span \div (n - 1))]
Offsets(n, total_span) ==
    IF n = 2 THEN <<-(total_span \div 2), total_span \div 2>>
    ELSE LET step == total_span \div (n - 1)
         IN  [i \in 1..n |-> -(total_span \div 2) + (i - 1) * step]

\* need_radial (the 1e-6 tolerance is below the fixed-point resolution)
NeedRadial(total_span, needed, th) ==
    /\ total_span < needed
    /\ th.allow_radial_stack
    /\ th.max_planet_stack_layers > 1

\* radius of member idx (0-based) when need_radial
StackRadiusOneLayer(idx, b_r, max_r, th) ==
    Min(Max(b_r - ((th.planet_stack_spacing_px * 6) \div 10), 0), max_r)
StackRadius(idx, b_r, max_r, th) ==
    LET layer == idx % 2
        direction == IF layer = 0 THEN -1 ELSE 1
    IN  Min(Max(b_r + direction * ((th.planet_stack_spacing_px * 6) \div 10), 0),
            max_r)

\* min(rad, max_allowed_r) of the appended tuple
Uncapped(rad, max_r) == rad
CapRadius(rad, max_r) == Min(rad, max_r)

\* _distribute_cluster: the list of (planet, angle, radius)
DistributeCluster(cl, b_angle, b_r, max_r, th) ==
    LET n == Len(cl)
    IN  IF n = 1
        THEN <<[planet |-> cl[1].planet, angle |-> b_angle,
                radius |-> Min(b_r, max_r)]>>
        ELSE LET r == EffectiveBaseR(b_r)
                 needed == TotalSpanNeeded(n, th, r)
                 total_span == TotalSpan(needed, th)
                 offsets == Offsets(n, total_span)
                 need_radial == NeedRadial(total_span, needed, th)
             IN  [i \in 1..n |->
                    [planet |-> cl[i].planet,
                     angle |-> (b_angle + offsets[i]) % Circle,
                     radius |-> CapRadius(IF need_radial
                                          THEN StackRadius(i - 1, r, max_r, th)
                                          ELSE r,
                                          max_r)]]

----------------------------------------------------------------------------
(* _conjunction_components *)

\* edges: (planet1, planet2) of every CONJUNCTION aspect, in list order
RECURSIVE EdgesOfAnyKind(_)
EdgesOfAnyKind(as) ==
    IF as = <<>> THEN <<>>
    ELSE <<<<Head(as).planet1, Head(as).planet2>>>> \o EdgesOfAnyKind(Tail(as))
RECURSIVE ConjunctionEdges(_)
ConjunctionEdges(as) ==
    IF as = <<>> THEN <<>>
    ELSE (IF Head(as).kind = "CONJUNCTION"
          THEN <<<<Head(as).planet1, Head(as).planet2>>>>
          ELSE <<>>) \o ConjunctionEdges(Tail(as))

\* adj.setdefault(a, set()).add(b) on the dict d = [keys, nbrs]
SetDefaultAdd(d, a, b) ==
    IF a \in SeqSet(d.keys)
    THEN [d EXCEPT !.nbrs[a] = @ \cup {b}]
    ELSE [keys |-> Append(d.keys, a),
          nbrs |-> [x \in DOMAIN d.nbrs \cup {a} |->
                       IF x = a THEN {b} ELSE d.nbrs[x]]]

\* one iteration of `for p1, p2 in edges`
AddEdgeOneWay(d, e) == SetDefaultAdd(d, e[1], e[2])
AddEdge(d, e) == SetDefaultAdd(SetDefaultAdd(d, e[1], e[2]), e[2], e[1])

\* the adj dict after the loop over edges
RECURSIVE BuildAdj(_, _)
BuildAdj(d, edges) ==
    IF edges = <<>> THEN d
    ELSE BuildAdj(AddEdge(d, Head(edges)), Tail(edges))

EmptyDict == [keys |-> <<>>, nbrs |-> <<>>]

\* adj.get(cur, ())
AdjGet(d, cur) == IF cur \in DOMAIN d THEN d[cur] ELSE {}

\* the orders in which a Python set may be iterated
IterationOrders(S) ==
    {f \in [1..Cardinality(S) -> S] : \A i, j \in DOMAIN f : i # j => f[i] # f[j]}

----------------------------------------------------------------------------
(* _layout_planets *)

\* layout[planet] = (ang, r) for every tuple of `distributed`, in order
RECURSIVE LayoutFrom(_, _)
LayoutFrom(lay, distributed) ==
    IF distributed = <<>> THEN lay
    ELSE LET d == Head(distributed)
         IN  LayoutFrom([p \in DOMAIN lay \cup {d.planet} |->
                            IF p = d.planet THEN <<d.angle, d.radius>> ELSE lay[p]],
                        Tail(distributed))

\* the loop over the clusters
RECURSIVE LayoutClustersMeanBase(_, _, _, _, _)
LayoutClustersMeanBase(lay, cls, b_symbol_r, max_allowed, th) ==
    IF cls = <<>> THEN lay
    ELSE LET cl == Head(cls)
             b_angle == ((cl[1].longitude + cl[Len(cl)].longitude) \div 2) % Circle
         IN  LayoutClustersMeanBase(
                 LayoutFrom(lay, DistributeCluster(cl, b_angle, b_symbol_r,
                                                   max_allowed, th)),
                 Tail(cls), b_symbol_r, max_allowed, th)
RECURSIVE LayoutClusters(_, _, _, _, _)
LayoutClusters(lay, cls, b_symbol_r, max_allowed, th) ==
    IF cls = <<>> THEN lay
    ELSE LET cl == Head(cls)
             b_angle == cl[1].longitude % Circle
         IN  LayoutClusters(
                 LayoutFrom(lay, DistributeCluster(cl, b_angle, b_symbol_r,
                                                   max_allowed, th)),
                 Tail(cls), b_symbol_r, max_allowed, th)

\* max_allowed = zodiac_r_inner - theme.planet_font_size * 0.65
MaxAllowed(z_r_inner, th) ==
    z_r_inner - (th.planet_font_size * 65) \div 100

LayoutPlanets(planet_positions, b_symbol_r, z_r_inner, th) ==
    LayoutClusters(<<>>,
                   ClusterPlanetPositions(planet_positions,
                                          th.min_planet_separation_deg),
                   b_symbol_r, MaxAllowed(z_r_inner, th), th)

----------------------------------------------------------------------------
(* chart_to_svg: geometry *)

\* PolarConverter.__call__: the screen direction (mod 360) and the radius of
\* the point; x = cx + r cos a and y = cy - r sin a are functions of the two
Polar(th, offset, angle_deg, r) ==
    LET a == th.zero_at + angle_deg + offset
    IN  <<(IF th.clockwise THEN (Circle - a) % Circle ELSE a) % Circle, r>>

NoPoint == <<0, 0>>

\* sweep_flag = 1 if theme.clockwise else 0
SweepFlag(th) == IF th.clockwise THEN 1 ELSE 0

\* ring radii
MaxR(th) == Min(th.width, th.height) \div 2 - th.margin
HousesROuter(th) == (MaxR(th) * th.house_outer_ratio) \div 100
ZodiacROuter(th) == (MaxR(th) * th.zodiac_outer_ratio) \div 100
ZodiacRInner(th) == (MaxR(th) * th.zodiac_inner_ratio) \div 100
PlanetR(th) == (MaxR(th) * th.planet_inner_ratio) \div 100

\* base_symbol_r
BaseSymbolR(th) ==
    Min(PlanetR(th) + th.planet_symbol_offset,
        ZodiacRInner(th) - (th.planet_font_size * 65) \div 100)

\* round(x) of a value in hundredths, to whole units (half to even)
Round(x) ==
    LET q == x \div 100
        rem == x % 100
    IN  IF rem < 50 THEN q
        ELSE IF rem > 50 THEN q + 1
        ELSE IF q % 2 = 0 THEN q ELSE q + 1

\* one appended element of `out`
Prim(kind, p1, p2, label, n, flags) ==
    [kind |-> kind, p1 |-> p1, p2 |-> p2, label |-> label, n |-> n,
     flags |-> flags]

----------------------------------------------------------------------------
(* chart_to_svg: what each stage appends *)

\* lines 536-557: the svg element and the style element
PreamblePrims(th) ==
    <<Prim("svg_open", <<th.width, th.height>>, NoPoint, "", 0, <<>>),
      Prim("style", NoPoint, NoPoint, "", 0, <<>>)>>

\* line 558
BackgroundPrims(th) ==
    <<Prim("background", <<th.width, th.height>>, NoPoint, "", 0, <<>>)>>

\* lines 561-581: the twelve sign sectors
SignSectorPrimsOffByOne(th, offset) ==
    [k \in 1..11 |->
        Prim("sign_sector",
             Polar(th, offset, Deg((k - 1) * 30), ZodiacROuter(th)),
             Polar(th, offset, Deg((k - 1) * 30 + 30), ZodiacRInner(th)),
             "", k - 1, <<0, SweepFlag(th), 1 - SweepFlag(th)>>)]
SignSectorPrims(th, offset) ==
    [k \in 1..12 |->
        Prim("sign_sector",
             Polar(th, offset, Deg((k - 1) * 30), ZodiacROuter(th)),
             Polar(th, offset, Deg((k - 1) * 30 + 30), ZodiacRInner(th)),
             "", k - 1, <<0, SweepFlag(th), 1 - SweepFlag(th)>>)]

\* lines 584-590: the twelve sign glyphs
SignGlyphPrims(th, offset) ==
    [k \in 1..12 |->
        Prim("sign_glyph",
             Polar(th, offset, Deg((k - 1) * 30 + 15),
                   (ZodiacROuter(th) + ZodiacRInner(th)) \div 2),
             NoPoint, "", k - 1, <<>>)]

\* lines 596-636: two cusp line segments and a label per house
HouseCuspPrims(th, offset, house) ==
    LET ang == house.cusp_longitude % Circle
    IN  <<Prim("house_cusp_line", Polar(th, offset, ang, PlanetR(th)),
               Polar(th, offset, ang, ZodiacRInner(th)), "", house.house_number, <<>>),
          Prim("house_cusp_line", Polar(th, offset, ang, ZodiacROuter(th)),
               Polar(th, offset, ang, HousesROuter(th)), "", house.house_number, <<>>),
          Prim("house_label",
               Polar(th, offset, ang + th.house_label_angle_offset_deg,
                     (HousesROuter(th) + ZodiacROuter(th)) \div 2),
               <<ang, th.house_label_tangent_offset_px>>, "",
               house.house_number, <<Round(house.cusp_longitude % Deg(30))>>)>>

\* lines 593-636: the houses' outer circle, then the cusps
HousePrims(th, offset, hs) ==
    <<Prim("houses_outer_circle", <<0, HousesROuter(th)>>, NoPoint, "", 0, <<>>)>>
        \o Flatten([k \in DOMAIN hs |-> HouseCuspPrims(th, offset, hs[k])])

\* lines 639-642: the three structural circles
RingCirclePrims(th) ==
    <<Prim("ring_circle", <<0, ZodiacROuter(th)>>, NoPoint, "", 0, <<>>),
      Prim("ring_circle", <<0, ZodiacRInner(th)>>, NoPoint, "", 0, <<>>),
      Prim("ring_circle", <<0, PlanetR(th)>>, NoPoint, "", 0, <<>>)>>

\* lines 645-667: sign boundary ticks, the thin limb circle, 10-degree ticks
TickPrims(th, offset) ==
    LET tick_r_inner == Max(PlanetR(th) - th.tick_length, 0)
        limb_r == Max(PlanetR(th) - th.tick_limb_width, 0)
    IN  [k \in 1..12 |->
            Prim("sign_tick", Polar(th, offset, Deg((k - 1) * 30) % Circle, PlanetR(th)),
                 Polar(th, offset, Deg((k - 1) * 30) % Circle, tick_r_inner),
                 "", 0, <<>>)]
        \o <<Prim("limb_circle", <<0, limb_r>>, NoPoint, "", 0, <<>>)>>
        \o [k \in 1..36 |->
            Prim("degree_tick", Polar(th, offset, Deg((k - 1) * 10) % Circle, PlanetR(th)),
                 Polar(th, offset, Deg((k - 1) * 10) % Circle, limb_r),
                 "", 0, <<>>)]

\* planet_xy_base: planet -> point, and the order of its keys
PlanetXyBase(th, offset, ps) ==
    [p \in {ps[i].planet : i \in DOMAIN ps} |->
        LET last == CHOOSE i \in DOMAIN ps :
                        /\ ps[i].planet = p
                        /\ \A j \in DOMAIN ps : ps[j].planet = p => j <= i
        IN  Polar(th, offset, ps[last].longitude % Circle, PlanetR(th))]

RECURSIVE KeyOrder(_, _)
KeyOrder(keys, ps) ==
    IF ps = <<>> THEN keys
    ELSE KeyOrder(IF Head(ps).planet \in SeqSet(keys) THEN keys
                  ELSE Append(keys, Head(ps).planet),
                  Tail(ps))

\* lines 670-689: a line per aspect with both planets known, and its symbol
AspectPrims(th, offset, ps, a) ==
    LET xy == PlanetXyBase(th, offset, ps)
    IN  IF a.planet1 \notin DOMAIN xy \/ a.planet2 \notin DOMAIN xy THEN <<>>
        ELSE <<Prim("aspect_line", xy[a.planet1], xy[a.planet2], a.kind, 0, <<>>)>>
             \o (IF th.show_aspect_symbols /\ a.kind # "CONJUNCTION"
                 THEN <<Prim("aspect_symbol", xy[a.planet1], xy[a.planet2],
                             a.kind, 0, <<>>)>>
                 ELSE <<>>)

AspectLinePrims(th, offset, ps, as) ==
    Flatten([k \in DOMAIN as |-> AspectPrims(th, offset, ps, as[k])])

\* sorted(x % 360 for x in angles)
RECURSIVE InsertNumber(_, _)
InsertNumber(s, x) ==
    IF s = <<>> THEN <<x>>
    ELSE IF Head(s) <= x THEN <<Head(s)>> \o InsertNumber(Tail(s), x)
         ELSE <<x>> \o s

RECURSIVE SortedNumbers(_)
SortedNumbers(xs) ==
    IF xs = <<>> THEN <<>>
    ELSE InsertNumber(SortedNumbers(SubSeq(xs, 1, Len(xs) - 1)), xs[Len(xs)])

\* the loop of cluster_span: best (start, end, span) over the rotations
RECURSIVE BestRotation(_, _, _, _)
BestRotation(ext, n, i, best) ==
    IF i > n THEN best
    ELSE LET start == ext[i]
             end == ext[i + n - 1]
             span == end - start
         IN  BestRotation(ext, n, i + 1,
                          IF span < best[3] THEN <<start, end, span>> ELSE best)

\* cluster_span (local function of chart_to_svg): (start, end)
ClusterSpan(angles) ==
    IF Len(angles) = 1 THEN <<angles[1] % Circle, angles[1] % Circle>>
    ELSE LET a == SortedNumbers([k \in DOMAIN angles |-> angles[k] % Circle])
             ext == a \o [k \in DOMAIN a |-> a[k] + Circle]
             best == BestRotation(ext, Len(a), 1, <<0, 0, 1000000000>>)
         IN  <<best[1] % Circle, best[2] % Circle>>

\* base_angles of a component: longitudes in planet_positions order
ArcBaseAngles(cmp, ps) ==
    LET members == SelectSeq(ps, LAMBDA pp : pp.planet \in SeqSet(cmp))
    IN  [k \in DOMAIN members |-> members[k].longitude % Circle]

\* longitude of the (first) position of planet p
LongitudeOf(p, ps) ==
    ps[CHOOSE i \in DOMAIN ps :
           ps[i].planet = p /\ \A j \in DOMAIN ps : ps[j].planet = p => i <= j].longitude

\* start_a, end_a = cluster_span(base_angles)
SpanFromFirstToLastVisited(cmp, ps) ==
    <<LongitudeOf(cmp[1], ps) % Circle, LongitudeOf(cmp[Len(cmp)], ps) % Circle>>
ComponentSpan(cmp, ps) == ClusterSpan(ArcBaseAngles(cmp, ps))

\* lines 731-734: raw_span > 180 swaps start and end
ShortSide(se) ==
    IF (se[2] - se[1]) % Circle > HalfCircle THEN <<se[2], se[1]>> ELSE se

\* lines 735-745: the end padding, the sweep orientation and the large-arc
\* flag of the arc that runs from se[1] to se[2]
PaddedArc(th, se) ==
    LET pad == th.conjunction_arc_end_padding_deg
        padded == (se[2] - se[1]) % Circle > 2 * pad
        start_a == IF padded THEN (se[1] + pad) % Circle ELSE se[1]
        end_a == IF padded THEN (se[2] - pad) % Circle ELSE se[2]
        raw_span == (end_a - start_a) % Circle
    IN  [start_a |-> start_a,
         end_a |-> end_a,
         orientation |-> IF start_a < end_a THEN SweepFlag(th)
                         ELSE 1 - SweepFlag(th),
         large_arc |-> IF raw_span > HalfCircle THEN 1 ELSE 0]

\* lines 721-749: the arc of one component (nothing for fewer than 2 angles)
ArcPrims(th, offset, ps, cmp) ==
    IF Len(ArcBaseAngles(cmp, ps)) < 2 THEN <<>>
    ELSE LET arc_r == Max(PlanetR(th) - th.conjunction_arc_inner_inset, 0)
             a == PaddedArc(th, ShortSide(ComponentSpan(cmp, ps)))
         IN  <<Prim("conjunction_arc", Polar(th, offset, a.start_a, arc_r),
                    Polar(th, offset, a.end_a, arc_r), "", 0,
                    <<a.large_arc, a.orientation>>)>>

\* lines 699-749: the arcs of all components
ConjunctionArcPrims(th, offset, ps, cs) ==
    Flatten([k \in DOMAIN cs |-> ArcPrims(th, offset, ps, cs[k])])

\* lines 750-791: the glyph of one planet
GlyphPrimAngleShiftOnly(th, offset, lay, pp) ==
    LET at == IF pp.planet \in DOMAIN lay THEN lay[pp.planet]
              ELSE <<pp.longitude % Circle, BaseSymbolR(th)>>
        shifted == pp.planet \in DOMAIN th.manual_shifts
        sh == th.manual_shifts[pp.planet]
        point == IF shifted
                 THEN Polar(th, offset, (at[1] + sh.dangle) % Circle, at[2])
                 ELSE Polar(th, offset, at[1], at[2])
    IN  Prim("planet_glyph", point, NoPoint, pp.planet, 0,
             <<Round(pp.longitude % Deg(30))>>)
GlyphPrim(th, offset, lay, pp) ==
    LET at == IF pp.planet \in DOMAIN lay THEN lay[pp.planet]
              ELSE <<pp.longitude % Circle, BaseSymbolR(th)>>
        shifted == pp.planet \in DOMAIN th.manual_shifts
        sh == th.manual_shifts[pp.planet]
        point == IF shifted
                 THEN Polar(th, offset, (at[1] + sh.dangle) % Circle, at[2] + sh.dr)
                 ELSE Polar(th, offset, at[1], at[2])
    IN  Prim("planet_glyph", point, NoPoint, pp.planet, 0,
             <<Round(pp.longitude % Deg(30))>>)

PlanetGlyphPrims(th, offset, lay, ps) ==
    [k \in DOMAIN ps |-> GlyphPrim(th, offset, lay, ps[k])]

\* lines 793-798: the base points, in planet_xy_base order
BasePointPrims(th, offset, ps) ==
    IF th.show_planet_base_points
    THEN LET keys == KeyOrder(<<>>, ps)
             xy == PlanetXyBase(th, offset, ps)
         IN  [k \in DOMAIN keys |->
                 Prim("base_point", xy[keys[k]], NoPoint, keys[k], 0, <<>>)]
    ELSE <<>>

\* line 800
ClosingPrims == <<Prim("svg_close", NoPoint, NoPoint, "", 0, <<>>)>>

----------------------------------------------------------------------------
(* Idle values of the variables a specification does not use *)

IdleCluster == threshold_deg = 0 /\ clusters = <<>>
IdleDist ==
    /\ cluster = <<>> /\ base_angle = 0 /\ base_r = 0 /\ max_allowed_r = 0
    /\ result = <<>>
IdleDfs ==
    /\ edges_in = <<>> /\ adj_keys = <<>> /\ adj = <<>> /\ visited = {}
    /\ stack = <<>> /\ comp = <<>> /\ comps = <<>> /\ node_i = 0
IdleAngle ==
    /\ angle_self = [value |-> 0, from_0_to_360 |-> TRUE]
    /\ angle_op = [op |-> "none", left |-> [value |-> 0, from_0_to_360 |-> TRUE],
                   exact |-> 0, n |-> 0]
    /\ angle_text = [sign |-> "", deg |-> 0, minutes |-> 0, sec |-> 0,
                     precision |-> 0]
IdleArc == base_angles = <<>> /\ arc = <<0, 0>> /\ arc_flags = <<0, 0>>
IdleThemeArgs == data = <<>> /\ raised = ""
IdleLayoutArgs == base_symbol_r = 0 /\ zodiac_r_inner = 0
IdleRender == layout = <<>> /\ out = <<>>
IdleCoord ==
    /\ coord_text = <<>> /\ coord_kind = "None"
    /\ coord = [error |-> "", message |-> "", value |-> 0]
IdleParade == parade_positions = <<>> /\ min_planets = 0 /\ parades = {}
IdleDataclass == clazz = <<>> /\ obj = <<>>
IdleDatetime == dt = <<>>
IdleUtil == IdleCoord /\ IdleParade /\ IdleDataclass /\ IdleDatetime

----------------------------------------------------------------------------
(* Specification of _cluster_planet_positions alone *)

LonValues == {Deg(0), Deg(1), Deg(3), Deg(5), Deg(180), 35650, Deg(359)}
ThresholdValues == {Deg(0), Deg(2), Deg(4), Deg(5)}

InitCluster ==
    /\ pc = "cluster"
    /\ run = 1
    /\ \E n \in 0..MaxPlanets : \E lons \in [1..n -> LonValues] :
           positions = ChartPositions(n, lons)
    /\ aspects = ChartAspects(positions)
    /\ houses = <<>>
    /\ theme = DefaultTheme
    /\ angle = 0
    /\ threshold_deg \in ThresholdValues
    /\ clusters = <<>>
    /\ IdleDist /\ IdleDfs /\ IdleRender /\ IdleLayoutArgs /\ IdleThemeArgs
    /\ IdleArc /\ IdleAngle /\ IdleUtil
    /\ prev = <<>>

\* clusters = _cluster_planet_positions(chart, threshold_deg)
Cluster ==
    /\ pc = "cluster"
    /\ clusters' = ClusterPlanetPositions(positions, threshold_deg)
    /\ pc' = "clustered"
    /\ UNCHANGED <<run, utilVars, chartVars, angleVars, arcVars, themeArgs, layoutArgs, theme,
                   angle, threshold_deg, distVars,
                   dfsVars, renderVars, prev>>

NextCluster == Cluster

SpecCluster == InitCluster /\ [][NextCluster]_vars

----------------------------------------------------------------------------
(* Properties of the cluster detector *)

Sorted == SortedByLongitude(positions)

\* index of the cluster that holds position pp
ClusterOf(pp) == CHOOSE k \in DOMAIN clusters : pp \in SeqSet(clusters[k])

Occurrences(pp) ==
    Cardinality({kj \in {<<k, j>> : k \in DOMAIN clusters, j \in 1..MaxPlanets + 2} :
                    /\ kj[2] \in DOMAIN clusters[kj[1]]
                    /\ clusters[kj[1]][kj[2]] = pp})

\* C1: the clusters returned by _cluster_planet_positions partition the
\* input: every input position occurs in exactly one cluster exactly once,
\* and nothing else occurs, also when the wrap-around merge joined the last
\* scan cluster to the first.
ClusterPartition ==
    pc = "clustered" =>
        /\ \A i \in DOMAIN positions : Occurrences(positions[i]) = 1
        /\ Len(Flatten(clusters)) = Len(positions)
        /\ \A k \in DOMAIN clusters : clusters[k] # <<>>

\* a state in which the wrap-around merge has joined two scan clusters:
\* with two or more clusters, the first one ends with the highest longitude
WrapMergeHappened ==
    /\ pc = "clustered"
    /\ Len(clusters) >= 2
    /\ clusters[1][Len(clusters[1])] = Sorted[Len(Sorted)]
    /\ clusters[1][1] = Sorted[1]

CircularGap(a, b) == Min((b - a) % Circle, (a - b) % Circle)

\* gap from the highest longitude forward across 0/360 to the lowest one
SeamGap == (Sorted[1].longitude - Sorted[Len(Sorted)].longitude) % Circle

\* C4: two positions that are neighbours in circular longitude order (two
\* consecutive positions of the sorted list, or the last and the first
\* across the seam) and whose circular gap is below the threshold are in
\* the same cluster.
NeighboursClustered ==
    pc = "clustered" =>
        \A i \in DOMAIN Sorted :
            LET j == IF i = Len(Sorted) THEN 1 ELSE i + 1
            IN  CircularGap(Sorted[i].longitude, Sorted[j].longitude)
                    < threshold_deg
                => ClusterOf(Sorted[i]) = ClusterOf(Sorted[j])

\* the seam case of C4: highest and lowest longitude closer than the
\* threshold across 0/360 while another position lies far from both
SeamPairWithOthers ==
    /\ pc = "clustered"
    /\ Len(Sorted) >= 3
    /\ SeamGap < threshold_deg
    /\ Sorted[Len(Sorted)].longitude - Sorted[1].longitude > HalfCircle
    /\ \E i \in DOMAIN Sorted :
           /\ CircularGap(Sorted[i].longitude, Sorted[1].longitude) >= threshold_deg
           /\ CircularGap(Sorted[i].longitude, Sorted[Len(Sorted)].longitude)
                  >= threshold_deg

\* C5: with two or more clusters returned, the gap (mod 360) from the last
\* element of a cluster to the first element of the next one (the first
\* cluster follows the last one) is at least the threshold; first and
\* last scan cluster closer than that have been merged into one.
ClusterSeparation ==
    pc = "clustered" /\ Len(clusters) >= 2 =>
        /\ \A k \in DOMAIN clusters :
               LET nxt == clusters[IF k = Len(clusters) THEN 1 ELSE k + 1]
                   cur == clusters[k]
               IN  (nxt[1].longitude - cur[Len(cur)].longitude) % Circle
                       >= threshold_deg
        /\ SeamGap < threshold_deg
               => ClusterOf(Sorted[1]) = ClusterOf(Sorted[Len(Sorted)])

\* several clusters came out and the seam gap was at least the threshold,
\* or it was below it and the two end clusters were merged
SeveralClusters ==
    /\ pc = "clustered"
    /\ Len(clusters) >= 2
    /\ threshold_deg > 0
    /\ \E k \in DOMAIN clusters : Len(clusters[k]) >= 2

----------------------------------------------------------------------------
(* Specification of _distribute_cluster alone *)

BaseAngleValues == {Deg(-10), Deg(0), Deg(1), Deg(10), Deg(359), Deg(370)}
BaseRValues == {Px(-5), Px(0), Px(1), Px(100), Px(241)}
MaxAllowedRValues == {Px(0), Px(90), Px(257)}
PixelGapValues == {Px(0), Px(4), Px(16), Px(40)}
MaxFanValues == {Deg(0), Deg(6), Deg(14)}
StackSpacingValues == {Px(0), Px(14)}
StackLayerValues == {1, 2}

InitDistribute ==
    /\ pc = "distribute"
    /\ run = 1
    /\ base_angle \in BaseAngleValues
    /\ \E n \in 1..MaxCluster :
           cluster = ChartPositions(n, [i \in 1..n |-> base_angle + Deg(i - 1)])
    /\ positions = cluster
    /\ aspects = <<>>
    /\ houses = <<>>
    /\ \E gap \in PixelGapValues, fan \in MaxFanValues,
          sp \in StackSpacingValues, layers \in StackLayerValues,
          allow \in BOOLEAN :
           theme = [DefaultTheme EXCEPT !.cluster_min_pixel_gap = gap,
                                        !.max_cluster_fan_deg = fan,
                                        !.planet_stack_spacing_px = sp,
                                        !.max_planet_stack_layers = layers,
                                        !.allow_radial_stack = allow]
    /\ angle = 0
    /\ base_r \in BaseRValues
    /\ max_allowed_r \in MaxAllowedRValues
    /\ result = <<>>
    /\ IdleCluster /\ IdleDfs /\ IdleRender /\ IdleLayoutArgs /\ IdleThemeArgs
    /\ IdleArc /\ IdleAngle /\ IdleUtil
    /\ prev = <<>>

\* result = _distribute_cluster(cluster, base_angle, base_r, max_allowed_r, theme)
Distribute ==
    /\ pc = "distribute"
    /\ result' = DistributeCluster(cluster, base_angle, base_r, max_allowed_r, theme)
    /\ pc' = "distributed"
    /\ UNCHANGED <<run, utilVars, chartVars, angleVars, arcVars, themeArgs, layoutArgs, theme,
                   angle, clusterVars, cluster, base_angle,
                   base_r, max_allowed_r, dfsVars, renderVars, prev>>

NextDistribute == Distribute

SpecDistribute == InitDistribute /\ [][NextDistribute]_vars

----------------------------------------------------------------------------
(* Properties of the fan/stack distributor *)

\* the span the pixel gap asks for and the span after the clamp, from the
\* arguments of the call
RequiredSpan ==
    ((theme.cluster_min_pixel_gap * 180 * 100 * 113)
        \div (355 * (IF base_r <= 0 THEN Px(1) ELSE base_r))) * (Len(cluster) - 1)
ResultingSpan == Min(RequiredSpan, theme.max_cluster_fan_deg)

\* members were moved to two radius layers
Stacked ==
    /\ Len(cluster) >= 2
    /\ ResultingSpan < RequiredSpan
    /\ theme.allow_radial_stack
    /\ theme.max_planet_stack_layers > 1

\* C2: every (planet, angle, radius) triple returned by _distribute_cluster
\* has radius <= max_allowed_r, in the single-member, plain-fan and
\* radial-stack branches alike.
RadiusBound ==
    pc = "distributed" =>
        \A i \in DOMAIN result : result[i].radius <= max_allowed_r

\* a fan without stacking whose base radius lies beyond the allowed maximum
RadiusCapApplied ==
    /\ pc = "distributed"
    /\ Len(result) >= 2
    /\ ~Stacked
    /\ base_r > max_allowed_r
    /\ \A i \in DOMAIN result : result[i].radius = max_allowed_r

\* offset of a returned angle from the base angle, in [-180, 180)
SignedOffset(a) == ((a - base_angle + HalfCircle) % Circle) - HalfCircle

AngularSpread ==
    LET offs == {SignedOffset(result[i].angle) : i \in DOMAIN result}
    IN  (CHOOSE x \in offs : \A y \in offs : y <= x)
            - (CHOOSE x \in offs : \A y \in offs : x <= y)

FanSymmetry ==
    pc = "distributed" /\ Len(cluster) = 2 =>
        /\ Len(result) = 2
        /\ result[1].planet = cluster[1].planet
        /\ result[2].planet = cluster[2].planet
        /\ result[1].angle = (base_angle - ResultingSpan \div 2) % Circle
        /\ result[2].angle = (base_angle + ResultingSpan \div 2) % Circle

\* a 2-member fan whose lower angle wraps below 0
TwoMemberFanAcrossZero ==
    /\ pc = "distributed"
    /\ Len(cluster) = 2
    /\ ResultingSpan > 0
    /\ base_angle - ResultingSpan \div 2 < 0
    /\ result[1].angle > result[2].angle

\* the distinct radii among the returned placements
DistinctRadii == {result[i].radius : i \in DOMAIN result}

\* the call asks for a stack: two or more members, a required span above
\* the fan limit, stacking allowed, two layers configured
StackRequested ==
    /\ pc = "distributed"
    /\ Len(cluster) >= 2
    /\ RequiredSpan > theme.max_cluster_fan_deg
    /\ theme.allow_radial_stack
    /\ theme.max_planet_stack_layers = 2

\* the inner layer lies strictly below the allowed maximum and the layers
\* are a positive distance apart
LayersSeparable ==
    /\ theme.planet_stack_spacing_px > 0
    /\ Max((IF base_r <= 0 THEN Px(1) ELSE base_r)
              - (theme.planet_stack_spacing_px * 6) \div 10, 0) < max_allowed_r

\* C11 as claimed: whenever a cluster of n >= 2 members needs more span
\* than max_cluster_fan_deg, allow_radial_stack is true and
\* max_planet_stack_layers is 2, the placements use exactly two distinct
\* radii.
TwoRadiiAlways ==
    StackRequested => Cardinality(DistinctRadii) = 2

\* C11 as amended: under the same conditions, and when in addition
\* planet_stack_spacing_px > 0 and the inner layer radius
\* max(base_r - 0.6 * planet_stack_spacing_px, 0) is below max_allowed_r,
\* the placements use exactly two distinct radii.
TwoRadiiWhenSeparable ==
    StackRequested /\ LayersSeparable => Cardinality(DistinctRadii) = 2

\* six members stacked on two radii
SixMembersTwoRadii ==
    /\ StackRequested
    /\ LayersSeparable
    /\ Len(result) = 6
    /\ theme.max_cluster_fan_deg = Deg(14)
    /\ Cardinality(DistinctRadii) = 2

\* C13: for every cluster size (including 1), a call of _distribute_cluster
\* with base radius <= 0 gives the same placements as the call with base
\* radius 1 and the same other arguments.
NonPositiveBaseRadiusAsOne ==
    pc = "distributed" /\ base_r <= 0 =>
        result = DistributeCluster(cluster, base_angle, Px(1), max_allowed_r, theme)

----------------------------------------------------------------------------
(* _conjunction_components, step by step *)

\* lines 468-479: edges, early return, adj, visited, comps
CompBuild ==
    /\ pc = "components"
    /\ LET edges == ConjunctionEdges(edges_in)
           d == BuildAdj(EmptyDict, edges)
       IN  IF edges = <<>>
           THEN /\ comps' = <<>>
                /\ pc' = "components_returned"
                /\ UNCHANGED <<adj_keys, adj, visited, node_i>>
           ELSE /\ adj_keys' = d.keys
                /\ adj' = d.nbrs
                /\ visited' = {}
                /\ comps' = <<>>
                /\ node_i' = 1
                /\ pc' = "comp_for"
    /\ stack' = <<>>
    /\ comp' = <<>>
    /\ UNCHANGED <<run, utilVars, chartVars, angleVars, arcVars, themeArgs, layoutArgs, theme,
                   angle, clusterVars, distVars, edges_in,
                   renderVars, prev>>

\* lines 480-485: `for node in adj`, skipping visited nodes; return comps
CompFor ==
    /\ pc = "comp_for"
    /\ IF node_i > Len(adj_keys)
       THEN /\ pc' = "components_returned"
            /\ UNCHANGED <<visited, stack, comp, node_i>>
       ELSE IF adj_keys[node_i] \in visited
       THEN /\ node_i' = node_i + 1
            /\ UNCHANGED <<pc, visited, stack, comp>>
       ELSE /\ stack' = <<adj_keys[node_i]>>
            /\ comp' = <<>>
            /\ visited' = visited \cup {adj_keys[node_i]}
            /\ pc' = "comp_while"
            /\ UNCHANGED node_i
    /\ UNCHANGED <<run, utilVars, chartVars, angleVars, arcVars, themeArgs, layoutArgs, theme,
                   angle, clusterVars, distVars, edges_in,
                   adj_keys, adj, comps, renderVars, prev>>

\* lines 486-494: one iteration of `while stack`, or the end of the loop
CompWhile ==
    /\ pc = "comp_while"
    /\ IF stack # <<>>
       THEN LET cur == stack[Len(stack)]
            IN  \E order \in IterationOrders(AdjGet(adj, cur)) :
                    LET fresh == SelectSeq(order, LAMBDA x : x \notin visited)
                    IN  /\ stack' = SubSeq(stack, 1, Len(stack) - 1) \o fresh
                        /\ visited' = visited \cup SeqSet(fresh)
                        /\ comp' = Append(comp, cur)
                        /\ UNCHANGED <<pc, comps, node_i>>
       ELSE /\ comps' = IF Len(comp) > 1 THEN Append(comps, comp) ELSE comps
            /\ node_i' = node_i + 1
            /\ pc' = "comp_for"
            /\ UNCHANGED <<visited, stack, comp>>
    /\ UNCHANGED <<run, utilVars, chartVars, angleVars, arcVars, themeArgs, layoutArgs, theme,
                   angle, clusterVars, distVars, edges_in,
                   adj_keys, adj, renderVars, prev>>

----------------------------------------------------------------------------
(* Specification of _conjunction_components alone: the function is called *)
(* on the chart's aspect list, then again on rearrangements of that list  *)

CompPlanets == 3
ConjLonValues == {Deg(0), Deg(7), Deg(14), Deg(100), Deg(355)}

\* the aspect with planet1 and planet2 exchanged
Flipped(a) == [a EXCEPT !.planet1 = a.planet2, !.planet2 = a.planet1]

\* the lists obtained from `as` by exchanging two entries or by flipping one
Rearrangements(as) ==
    {[as EXCEPT ![i] = as[j], ![j] = as[i]] : i, j \in DOMAIN as}
        \cup {[as EXCEPT ![i] = Flipped(as[i])] : i \in DOMAIN as}

ComponentSets(cs) == {SeqSet(cs[k]) : k \in DOMAIN cs}

InitComponents ==
    /\ pc = "components"
    /\ run = 1
    /\ \E n \in 0..CompPlanets : \E lons \in [1..n -> ConjLonValues] :
           positions = ChartPositions(n, lons)
    /\ aspects = ChartAspects(positions)
    /\ houses = <<>>
    /\ theme = DefaultTheme
    /\ angle = 0
    /\ edges_in = aspects
    /\ adj_keys = <<>> /\ adj = <<>> /\ visited = {} /\ stack = <<>>
    /\ comp = <<>> /\ comps = <<>> /\ node_i = 0
    /\ IdleCluster /\ IdleDist /\ IdleRender /\ IdleLayoutArgs /\ IdleThemeArgs
    /\ IdleArc /\ IdleAngle /\ IdleUtil
    /\ prev = {}

\* the next call: same aspects, entries exchanged or one aspect flipped
CallAgain ==
    /\ pc = "components_returned"
    /\ run < MaxRuns
    /\ run' = run + 1
    /\ prev' = IF run = 1 THEN ComponentSets(comps) ELSE prev
    /\ edges_in' \in Rearrangements(edges_in)
    /\ pc' = "components"
    /\ UNCHANGED <<utilVars, chartVars, angleVars, arcVars, themeArgs, layoutArgs, theme,
                   angle, clusterVars, distVars, adj_keys, adj,
                   visited, stack, comp, comps, node_i, renderVars>>

NextComponents == CompBuild \/ CompFor \/ CompWhile \/ CallAgain

SpecComponents == InitComponents /\ [][NextComponents]_vars

----------------------------------------------------------------------------
(* Properties of the grouping-component finder *)

\* planets joined by a CONJUNCTION aspect of the list the call reads
ConjLinked(a, b) ==
    \E i \in DOMAIN edges_in :
        /\ edges_in[i].kind = "CONJUNCTION"
        /\ {edges_in[i].planet1, edges_in[i].planet2} = {a, b}

\* the planets of the chart
ChartPlanets == {positions[i].planet : i \in DOMAIN positions}

HasConjunction(p) == \E q \in ChartPlanets : ConjLinked(p, q)

\* planets reachable from the set S over CONJUNCTION aspects
RECURSIVE ConjClosure(_)
ConjClosure(S) ==
    LET T == S \cup {q \in ChartPlanets : \E p \in S : ConjLinked(p, q)}
    IN  IF T = S THEN S ELSE ConjClosure(T)

ComponentsHolding(p) == {k \in DOMAIN comps : p \in SeqSet(comps[k])}

\* C7: the returned components are transitively closed and leave isolated
\* planets out: planets linked by CONJUNCTION aspects (directly or through
\* others) share a component, every planet with a CONJUNCTION aspect is in
\* exactly one component and once, no planet without one is in any, and
\* aspects of other kinds connect nothing.
ComponentClosure ==
    pc = "components_returned" =>
        /\ \A p \in ChartPlanets :
               IF HasConjunction(p)
               THEN /\ Cardinality(ComponentsHolding(p)) = 1
                    /\ \A k \in ComponentsHolding(p) :
                           /\ SeqSet(comps[k]) = ConjClosure({p})
                           /\ Cardinality({j \in DOMAIN comps[k] : comps[k][j] = p}) = 1
               ELSE ComponentsHolding(p) = {}
        /\ \A a, b, c \in ChartPlanets :
               ConjLinked(a, b) /\ ConjLinked(b, c)
                   => \E k \in DOMAIN comps : {a, b, c} \subseteq SeqSet(comps[k])

\* a chain A-B, B-C with no CONJUNCTION between A and C, in one component
ChainInOneComponent ==
    /\ pc = "components_returned"
    /\ \E a, b, c \in ChartPlanets :
           /\ ConjLinked(a, b) /\ ConjLinked(b, c) /\ a # c
           /\ ~ConjLinked(a, c)
           /\ \E k \in DOMAIN comps : {a, b, c} \subseteq SeqSet(comps[k])

\* C8: the set of components (each taken as a set of planets) returned for
\* a rearranged aspect list (entries exchanged, planet1/planet2 flipped) is
\* the one returned for the original list.
OrderIndependence ==
    pc = "components_returned" /\ run > 1 => ComponentSets(comps) = prev

\* a later call on a list that differs from the chart's, with a component
RearrangedCall ==
    /\ pc = "components_returned"
    /\ run > 1
    /\ edges_in # aspects
    /\ \E i \in DOMAIN edges_in :
           /\ edges_in[i].kind = "CONJUNCTION"
           /\ PlanetCode(edges_in[i].planet1) > PlanetCode(edges_in[i].planet2)
    /\ \E k \in DOMAIN comps : Len(comps[k]) >= 3

----------------------------------------------------------------------------
(* chart_to_svg, stage by stage *)

RenderPlanets == 3
RenderRuns == 2
RenderLonValues == {Deg(3), Deg(90), Deg(357)}

\* HousePosition list of a chart with houses: twelve cusps 30 degrees apart
HouseCusps ==
    [k \in 1..12 |-> [house_number |-> k,
                      cusp_longitude |-> (1550 + Deg(30 * (k - 1))) % Circle]]

\* theme.manual_shifts with one entry: {"SUN": Shift(dr=-7, dangle=350)}
SunShift == [SUN |-> [dr |-> Px(-7), dangle |-> Deg(350)]]

\* the order in which chart_to_svg runs its stages
GlyphsBeforeAspectsOrder ==
    <<"begin", "background", "sign_sectors", "sign_glyphs", "houses",
      "ring_circles", "ticks", "layout", "arcs", "planet_glyphs",
      "aspect_lines", "base_points", "end", "done">>
StageOrder ==
    <<"begin", "background", "sign_sectors", "sign_glyphs", "houses",
      "ring_circles", "ticks", "aspect_lines", "layout", "arcs",
      "planet_glyphs", "base_points", "end", "done">>

After(order, stage) ==
    order[1 + CHOOSE k \in DOMAIN order : order[k] = stage]

\* the stage that follows `stage`
NextStageGlyphsFirst(stage) == After(GlyphsBeforeAspectsOrder, stage)
NextStage(stage) == After(StageOrder, stage)

\* processor.py passes angle = -chart.ascendant
RenderAngleValues == {Deg(0), Deg(-98)}

Init ==
    /\ pc = "begin"
    /\ run = 1
    /\ \E n \in 0..RenderPlanets : \E lons \in [1..n -> RenderLonValues] :
           positions = ChartPositions(n, lons)
    /\ aspects = ChartAspects(positions)
    /\ houses \in {<<>>, HouseCusps}
    /\ \E cw \in BOOLEAN, hl \in BOOLEAN, shifted \in BOOLEAN :
           theme = [DefaultTheme EXCEPT !.clockwise = cw,
                                        !.highlight_conjunctions = hl,
                                        !.manual_shifts =
                                            IF shifted THEN SunShift ELSE <<>>]
    /\ angle \in RenderAngleValues
    /\ IdleCluster /\ IdleDist /\ IdleDfs /\ IdleRender /\ IdleLayoutArgs /\ IdleThemeArgs
    /\ IdleArc /\ IdleAngle /\ IdleUtil
    /\ prev = <<>>

\* a stage that appends prims to out and moves on
Emit(stage, prims) ==
    /\ pc = stage
    /\ out' = out \o prims
    /\ pc' = NextStage(stage)
    /\ UNCHANGED <<run, utilVars, chartVars, angleVars, arcVars, themeArgs, layoutArgs, theme,
                   angle, clusterVars, distVars, dfsVars,
                   layout, prev>>

\* lines 534-557: out = [], svg and style elements
Begin ==
    /\ pc = "begin"
    /\ out' = PreamblePrims(theme)
    /\ pc' = NextStage("begin")
    /\ UNCHANGED <<run, utilVars, chartVars, angleVars, arcVars, themeArgs, layoutArgs, theme,
                   angle, clusterVars, distVars, dfsVars,
                   layout, prev>>

Background == Emit("background", BackgroundPrims(theme))
SignSectors == Emit("sign_sectors", SignSectorPrims(theme, angle))
SignGlyphs == Emit("sign_glyphs", SignGlyphPrims(theme, angle))
Houses == Emit("houses", HousePrims(theme, angle, houses))
RingCircles == Emit("ring_circles", RingCirclePrims(theme))
Ticks == Emit("ticks", TickPrims(theme, angle))
AspectLines ==
    Emit("aspect_lines", AspectLinePrims(theme, angle, positions, aspects))

\* lines 692-696: layout = _layout_planets(...)
Layout ==
    /\ pc = "layout"
    /\ threshold_deg' = theme.min_planet_separation_deg
    /\ clusters' = ClusterPlanetPositions(positions, theme.min_planet_separation_deg)
    /\ layout' = LayoutPlanets(positions, BaseSymbolR(theme), ZodiacRInner(theme),
                               theme)
    /\ pc' = NextStage("layout")
    /\ UNCHANGED <<run, utilVars, chartVars, angleVars, arcVars, themeArgs, layoutArgs, theme,
                   angle, distVars, dfsVars, out, prev>>

\* lines 699-700: _conjunction_components is called when highlighting is on
ArcsEnter ==
    /\ pc = "arcs"
    /\ IF theme.highlight_conjunctions
       THEN /\ edges_in' = aspects
            /\ pc' = "components"
       ELSE /\ pc' = NextStage("arcs")
            /\ UNCHANGED edges_in
    /\ UNCHANGED <<run, utilVars, chartVars, angleVars, arcVars, themeArgs, layoutArgs, theme,
                   angle, clusterVars, distVars, adj_keys,
                   adj, visited, stack, comp, comps, node_i, renderVars, prev>>

\* lines 701-749: the arcs of the returned components
ArcsDraw ==
    /\ pc = "components_returned"
    /\ out' = out \o ConjunctionArcPrims(theme, angle, positions, comps)
    /\ pc' = NextStage("arcs")
    /\ UNCHANGED <<run, utilVars, chartVars, angleVars, arcVars, themeArgs, layoutArgs, theme,
                   angle, clusterVars, distVars, dfsVars,
                   layout, prev>>

PlanetGlyphs ==
    Emit("planet_glyphs", PlanetGlyphPrims(theme, angle, layout, positions))
BasePoints == Emit("base_points", BasePointPrims(theme, angle, positions))
End == Emit("end", ClosingPrims)

\* the same chart and theme are rendered again
RenderAgain ==
    /\ pc = "done"
    /\ run < RenderRuns
    /\ run' = run + 1
    /\ prev' = [clusters |-> clusters, layout |-> layout, out |-> out]
    /\ pc' = "begin"
    /\ UNCHANGED <<utilVars, chartVars, angleVars, arcVars, themeArgs, layoutArgs, theme,
                   angle, clusterVars, distVars, dfsVars,
                   renderVars>>

Next ==
    \/ Begin \/ Background \/ SignSectors \/ SignGlyphs \/ Houses
    \/ RingCircles \/ Ticks \/ AspectLines \/ Layout \/ ArcsEnter
    \/ CompBuild \/ CompFor \/ CompWhile \/ ArcsDraw
    \/ PlanetGlyphs \/ BasePoints \/ End \/ RenderAgain

Spec == Init /\ [][Next]_vars

----------------------------------------------------------------------------
(* Properties of the composer *)

\* the render stage a primitive belongs to
StageOfKind(kind) ==
    CASE kind \in {"svg_open", "style"} -> "preamble"
      [] kind = "background" -> "background"
      [] kind = "sign_sector" -> "sign sector fills"
      [] kind = "sign_glyph" -> "sign glyphs"
      [] kind \in {"houses_outer_circle", "house_cusp_line", "house_label"}
             -> "house cusp lines and labels"
      [] kind = "ring_circle" -> "structural ring circles"
      [] kind \in {"sign_tick", "limb_circle", "degree_tick"} -> "degree ticks"
      [] kind \in {"aspect_line", "aspect_symbol"} -> "relation lines"
      [] kind = "conjunction_arc" -> "grouping arcs"
      [] kind = "base_point" -> "base-point markers"
      [] kind = "planet_glyph" -> "entity glyphs"
      [] kind = "svg_close" -> "closing"

ClaimedStages ==
    <<"preamble", "background", "sign sector fills", "sign glyphs",
      "house cusp lines and labels", "structural ring circles", "degree ticks",
      "relation lines", "grouping arcs", "base-point markers", "entity glyphs",
      "closing">>

EmittedStages ==
    <<"preamble", "background", "sign sector fills", "sign glyphs",
      "house cusp lines and labels", "structural ring circles", "degree ticks",
      "relation lines", "grouping arcs", "entity glyphs", "base-point markers",
      "closing">>

RankIn(stages, kind) == CHOOSE k \in DOMAIN stages : stages[k] = StageOfKind(kind)

NoBacktracking(stages) ==
    \A i \in 1..Len(out) - 1 :
        RankIn(stages, out[i].kind) <= RankIn(stages, out[i + 1].kind)

\* C9 as stated: the primitives are appended in the order background, sign
\* sector fills, sign glyphs, house cusp lines and labels, ring circles,
\* degree ticks, relation lines, grouping arcs, base-point markers, entity
\* glyphs, no stage emitting after a later one has started.
ClaimedStageOrder == NoBacktracking(ClaimedStages)

\* C9 amended: the same order with entity glyphs before base-point
\* markers: ..., relation lines, grouping arcs, entity glyphs, base-point
\* markers; relation lines are still emitted before entity glyphs.
EmittedStageOrder == NoBacktracking(EmittedStages)

\* a finished render holding relation lines, an arc, glyphs and base points
AllStagesEmitted ==
    /\ pc = "done"
    /\ \A kind \in {"background", "sign_sector", "sign_glyph", "house_cusp_line",
                    "ring_circle", "degree_tick", "aspect_line", "aspect_symbol",
                    "conjunction_arc", "planet_glyph", "base_point"} :
           \E i \in DOMAIN out : out[i].kind = kind

\* C10: a second run on the same planet positions, aspects and theme gives
\* the same clusters, the same (angle, radius) per planet and the same
\* sequence of primitives as the run before, whatever order the component
\* traversal iterates its sets in.
Deterministic ==
    pc = "done" /\ run > 1 =>
        /\ clusters = prev.clusters
        /\ layout = prev.layout
        /\ out = prev.out

\* a finished second run whose component traversal visited a component of
\* three planets in an order different from planet order
SecondRunDone ==
    /\ pc = "done"
    /\ run > 1
    /\ \E i \in DOMAIN out : out[i].kind = "conjunction_arc"
    /\ \E k \in DOMAIN comps :
           /\ Len(comps[k]) >= 3
           /\ PlanetCode(comps[k][2]) > PlanetCode(comps[k][3])
    /\ \E k \in DOMAIN clusters : Len(clusters[k]) >= 2

----------------------------------------------------------------------------
(* Specification of _layout_planets alone *)

LayoutLonValues == {Deg(1), Deg(10), Deg(12), Deg(200), Deg(359)}
BaseSymbolRValues == {Px(-5), Px(0), Px(100), Px(241)}
ZodiacRInnerValues == {Px(13), Px(270)}
LayoutGapValues == {Px(16), Px(40)}
LayoutFanValues == {Deg(6), Deg(14)}

InitLayout ==
    /\ pc = "layout_call"
    /\ run = 1
    /\ \E n \in 0..MaxPlanets :
        \E lons \in [1..n -> LayoutLonValues] :
            positions = ChartPositions(n, lons)
    /\ aspects = ChartAspects(positions)
    /\ houses = <<>>
    /\ \E gap \in LayoutGapValues, fan \in LayoutFanValues :
           theme = [DefaultTheme EXCEPT !.cluster_min_pixel_gap = gap,
                                        !.max_cluster_fan_deg = fan]
    /\ angle = 0
    /\ base_symbol_r \in BaseSymbolRValues
    /\ zodiac_r_inner \in ZodiacRInnerValues
    /\ IdleCluster /\ IdleDist /\ IdleDfs /\ IdleRender /\ IdleThemeArgs
    /\ IdleArc /\ IdleAngle /\ IdleUtil
    /\ prev = <<>>

\* layout = _layout_planets(chart, base_symbol_r, zodiac_r_inner, theme)
LayoutCall ==
    /\ pc = "layout_call"
    /\ threshold_deg' = theme.min_planet_separation_deg
    /\ clusters' = ClusterPlanetPositions(positions, theme.min_planet_separation_deg)
    /\ layout' = LayoutPlanets(positions, base_symbol_r, zodiac_r_inner, theme)
    /\ pc' = "laid_out"
    /\ UNCHANGED <<run, utilVars, chartVars, angleVars, arcVars, themeArgs, layoutArgs, theme, angle, distVars, dfsVars,
                   out, prev>>

NextLayout == LayoutCall

SpecLayout == InitLayout /\ [][NextLayout]_vars

----------------------------------------------------------------------------
(* Properties of the layout *)

\* the golden scenario: two planets at 10 and 12 degrees (and possibly a
\* third one far away), pixel gap 16, base radius 100, fan limit 14 degrees
GoldenScenario ==
    /\ pc = "laid_out"
    /\ Len(positions) \in {2, 3}
    /\ positions[1].longitude = Deg(10)
    /\ positions[2].longitude = Deg(12)
    /\ Len(positions) = 3 => positions[3].longitude = Deg(200)
    /\ theme.cluster_min_pixel_gap = Px(16)
    /\ theme.max_cluster_fan_deg = Deg(14)
    /\ base_symbol_r = Px(100)

\* the required span of the golden scenario, about 9.17 degrees
GoldenSpan == (Px(16) * 180 * 100 * 113) \div (355 * Px(100))

\* C12 as claimed: in the golden scenario the first member is placed at its
\* own longitude minus s/2 and the second member at its own longitude
\* plus s/2.
GoldenFanAroundOwnLongitudes ==
    GoldenScenario =>
        /\ layout[positions[1].planet][1] = Deg(10) - GoldenSpan \div 2
        /\ layout[positions[2].planet][1] = Deg(12) + GoldenSpan \div 2

\* C12 as amended: in the golden scenario the first member is placed at
\* the first member's longitude minus s/2 and the second member at the
\* first member's longitude plus s/2 (10 - 4.58 and 10 + 4.58 degrees).
GoldenFanAroundFirstLongitude ==
    GoldenScenario =>
        /\ layout[positions[1].planet][1] = Deg(10) - GoldenSpan \div 2
        /\ layout[positions[2].planet][1] = Deg(10) + GoldenSpan \div 2

\* the golden scenario with its third planet, laid out
GoldenScenarioLaidOut ==
    /\ GoldenScenario
    /\ Len(positions) = 3
    /\ GoldenSpan > Deg(9) /\ GoldenSpan < Deg(14)
    /\ Len(clusters) = 2
    /\ DOMAIN layout = {positions[i].planet : i \in 1..3}

----------------------------------------------------------------------------
(* SvgTheme.from_dict *)

\* a JSON value: its kind, its number (hundredths for fractions, 1/0 for
\* booleans) and its text
Raw(kind, num, text) == [kind |-> kind, num |-> num, text |-> text]

\* the fields read here, in the order of their declaration in SvgTheme
ThemeFields ==
    <<"allow_radial_stack", "house_outer_ratio", "zodiac_outer_ratio",
      "zodiac_inner_ratio", "planet_inner_ratio", "manual_shifts">>
BoolFields == {"allow_radial_stack"}
FloatFields == {"house_outer_ratio", "zodiac_outer_ratio", "zodiac_inner_ratio",
                "planet_inner_ratio"}

\* strings float() parses, with their value
NumericText == [x \in {"0.5"} |-> 50]

\* value = float(value) raises TypeError or ValueError
FloatFails(v) ==
    \/ v.kind \in {"null", "list", "dict"}
    \/ v.kind = "str" /\ v.text \notin DOMAIN NumericText
FloatOf(v) ==
    CASE v.kind = "number" -> v.num
      [] v.kind = "bool" -> v.num * 100
      [] OTHER -> NumericText[v.text]

\* the bool branch: never raises
BoolOf(v) ==
    CASE v.kind = "bool" -> v.num = 1
      [] v.kind = "str" -> v.text \in {"1", "true", "yes", "on"}
      [] v.kind = "number" -> v.num # 0
      [] v.kind = "list" -> TRUE
      [] OTHER -> FALSE

\* the field's branch raises ValueError
CoerceFails(field, v) ==
    CASE field \in FloatFields -> FloatFails(v)
      [] field = "manual_shifts" -> v.kind # "dict"
      [] OTHER -> FALSE

\* the value set on the theme
Coerced(field, v) ==
    CASE field \in FloatFields -> FloatOf(v)
      [] field \in BoolFields -> BoolOf(v)
      [] OTHER -> <<>>

\* the loop over the dataclass fields from index i on: the theme built, or
\* the field whose branch raised
RECURSIVE FromDictLoop(_, _, _)
FromDictLoop(th, d, i) ==
    IF i > Len(ThemeFields) THEN [theme |-> th, raised |-> ""]
    ELSE LET field == ThemeFields[i]
         IN  IF field \notin DOMAIN d THEN FromDictLoop(th, d, i + 1)
             ELSE IF CoerceFails(field, d[field])
                  THEN [theme |-> th, raised |-> field]
                  ELSE FromDictLoop([th EXCEPT ![field] = Coerced(field, d[field])],
                                    d, i + 1)

FromDictOf(d) == FromDictLoop(DefaultTheme, d, 1)

----------------------------------------------------------------------------
(* Specification of SvgTheme.from_dict alone *)

MaxDataFields == 2      \* entries of the dict handed to from_dict

RawValues ==
    {Raw("number", -100, ""), Raw("number", 50, ""), Raw("number", 100, ""),
     Raw("number", 500, ""), Raw("str", 0, "abc"), Raw("str", 0, "0.5"),
     Raw("str", 0, "true"), Raw("bool", 1, ""), Raw("bool", 0, ""),
     Raw("null", 0, ""), Raw("list", 0, ""), Raw("dict", 0, "")}

InitTheme ==
    /\ pc = "from_dict"
    /\ run = 1
    /\ \E S \in SUBSET SeqSet(ThemeFields) :
           /\ Cardinality(S) <= MaxDataFields
           /\ data \in [S -> RawValues]
    /\ raised = ""
    /\ theme = DefaultTheme
    /\ positions = <<>> /\ aspects = <<>> /\ houses = <<>>
    /\ angle = 0
    /\ IdleCluster /\ IdleDist /\ IdleDfs /\ IdleRender /\ IdleLayoutArgs /\ IdleArc /\ IdleAngle /\ IdleUtil
    /\ prev = <<>>

\* theme = SvgTheme.from_dict(data), or ValueError
FromDict ==
    /\ pc = "from_dict"
    /\ LET r == FromDictOf(data)
       IN  /\ raised' = r.raised
           /\ theme' = IF r.raised = "" THEN r.theme ELSE theme
           /\ pc' = IF r.raised = "" THEN "theme_built" ELSE "value_error"
    /\ UNCHANGED <<run, utilVars, chartVars, angleVars, arcVars, data, layoutArgs, angle, clusterVars, distVars,
                   dfsVars, renderVars, prev>>

NextTheme == FromDict

SpecTheme == InitTheme /\ [][NextTheme]_vars

----------------------------------------------------------------------------
(* Properties of the theme construction *)

\* the value has the type of the field
RightType(field, v) ==
    CASE field \in FloatFields -> v.kind = "number"
      [] field \in BoolFields -> v.kind = "bool"
      [] OTHER -> v.kind = "dict"

\* a ring ratio is a fraction of the maximal radius
RatioInRange(ratio) == 0 < ratio /\ ratio <= 100

\* C14: from_dict rejects every malformed option with a ValueError naming
\* the offending field: a value of the wrong type, and a ring ratio outside
\* its valid range; so a theme that was built holds no invalid value.
MalformedThemeRejected ==
    /\ pc = "theme_built" =>
           \A field \in DOMAIN data :
               /\ RightType(field, data[field])
               /\ field \in FloatFields => RatioInRange(theme[field])
    /\ pc = "value_error" =>
           /\ raised \in DOMAIN data
           /\ ~RightType(raised, data[raised])

----------------------------------------------------------------------------
(* Manual shifts *)

\* the theme without its manual shifts and the automatic layout under it
Unshifted == [theme EXCEPT !.manual_shifts = <<>>]
AutomaticLayout ==
    LayoutPlanets(positions, BaseSymbolR(Unshifted), ZodiacRInner(Unshifted),
                  Unshifted)

OfKinds(kinds) == SelectSeq(out, LAMBDA p : p.kind \in kinds)

\* where the glyph of a planet belongs: the automatic placement plus the
\* planet's shift, if it has one
ShiftedPlacement(planet) ==
    LET at == AutomaticLayout[planet]
    IN  IF planet \in DOMAIN theme.manual_shifts
        THEN <<(at[1] + theme.manual_shifts[planet].dangle) % Circle,
               at[2] + theme.manual_shifts[planet].dr>>
        ELSE at

\* C16: the glyph of a planet with an entry in theme.manual_shifts is drawn
\* at angle (layout angle + dangle) mod 360 and radius (layout radius + dr),
\* the layout being the automatic layout; a planet without an entry is drawn
\* at its automatic layout angle and radius; base points and aspect lines
\* are those of the theme without shifts.
ManualShiftAdditive ==
    pc = "done" =>
        LET glyphs == OfKinds({"planet_glyph"})
        IN  /\ layout = AutomaticLayout
            /\ Len(glyphs) = Len(positions)
            /\ \A k \in DOMAIN glyphs :
                   /\ glyphs[k].label = positions[k].planet
                   /\ glyphs[k].p1 =
                          Polar(theme, angle,
                                ShiftedPlacement(positions[k].planet)[1],
                                ShiftedPlacement(positions[k].planet)[2])
            /\ OfKinds({"base_point"}) = BasePointPrims(Unshifted, angle, positions)
            /\ OfKinds({"aspect_line", "aspect_symbol"})
                   = AspectLinePrims(Unshifted, angle, positions, aspects)

\* a finished render with a shifted Sun whose shifted angle wraps past 360,
\* an unshifted planet, an aspect line and base points
ShiftedSunDrawn ==
    /\ pc = "done"
    /\ "SUN" \in DOMAIN theme.manual_shifts
    /\ Len(positions) >= 2
    /\ layout["SUN"][1] + theme.manual_shifts["SUN"].dangle >= Circle
    /\ OfKinds({"aspect_line"}) # <<>>
    /\ OfKinds({"base_point"}) # <<>>
    /\ \E i \in DOMAIN out :
           /\ out[i].kind = "planet_glyph"
           /\ out[i].label = "SUN"
           /\ out[i].p1[2] = layout["SUN"][2] - Px(7)

----------------------------------------------------------------------------
(* Specification of the arc span of one component (cluster_span and the
   short-side swap that follows it in chart_to_svg) *)

MaxArcMembers == 3      \* members of a component
ArcAngleValues == {Deg(0), Deg(3), Deg(100), Deg(200), Deg(357)}

InitArc ==
    /\ pc = "arc_span"
    /\ run = 1
    /\ \E n \in 2..MaxArcMembers : base_angles \in [1..n -> ArcAngleValues]
    /\ arc = <<0, 0>>
    /\ arc_flags = <<0, 0>>
    /\ \E cw \in BOOLEAN : theme = [DefaultTheme EXCEPT !.clockwise = cw]
    /\ positions = <<>> /\ aspects = <<>> /\ houses = <<>>
    /\ angle = 0
    /\ IdleCluster /\ IdleDist /\ IdleDfs /\ IdleRender /\ IdleLayoutArgs
    /\ IdleThemeArgs /\ IdleAngle /\ IdleUtil
    /\ prev = <<>>

\* start_a, end_a = cluster_span(base_angles), then the swap of lines 731-734
ArcSpan ==
    /\ pc = "arc_span"
    /\ arc' = ShortSide(ClusterSpan(base_angles))
    /\ pc' = "arc_spanned"
    /\ UNCHANGED <<run, utilVars, chartVars, angleVars, base_angles, arc_flags,
                   themeArgs, layoutArgs, theme, angle,
                   clusterVars, distVars, dfsVars, renderVars, prev>>

\* lines 735-745: padding, orientation and large_arc of the path
ArcDraw ==
    /\ pc = "arc_spanned"
    /\ LET a == PaddedArc(theme, arc)
       IN  arc_flags' = <<a.large_arc, a.orientation>>
    /\ pc' = "arc_drawn"
    /\ UNCHANGED <<run, utilVars, chartVars, angleVars, base_angles, arc,
                   themeArgs, layoutArgs, theme, angle,
                   clusterVars, distVars, dfsVars, renderVars, prev>>

ArcRotations == {Deg(90), Deg(357), Deg(358) + 50}

\* the same component with every longitude moved by the same offset
ArcRotated ==
    /\ pc = "arc_drawn"
    /\ run = 1
    /\ \E rot \in ArcRotations :
           base_angles' = [i \in DOMAIN base_angles |->
                              (base_angles[i] + rot) % Circle]
    /\ prev' = arc_flags
    /\ arc' = <<0, 0>>
    /\ arc_flags' = <<0, 0>>
    /\ run' = 2
    /\ pc' = "arc_span"
    /\ UNCHANGED <<utilVars, chartVars, angleVars, themeArgs, layoutArgs,
                   theme, angle, clusterVars, distVars, dfsVars, renderVars>>

NextArc == ArcSpan \/ ArcDraw \/ ArcRotated

SpecArc == InitArc /\ [][NextArc]_vars

----------------------------------------------------------------------------
(* Properties of the arc span *)

\* x lies on the arc that runs from a to b in increasing angle
OnArc(x, a, b) == (x - a) % Circle <= (b - a) % Circle

Members == {base_angles[k] : k \in DOMAIN base_angles}

----------------------------------------------------------------------------
(* Empty chart *)

\* C18: with an empty list of planet positions the clustering returns no
\* clusters, the layout is empty, and the finished output holds the
\* background, the twelve sign sectors, the ring circles and the degree
\* ticks, and no planet glyph, base point, aspect line or conjunction arc.
EmptyChartDrawsRings ==
    pc = "done" /\ positions = <<>> =>
        /\ clusters = <<>>
        /\ DOMAIN layout = {}
        /\ Len(OfKinds({"background"})) = 1
        /\ Len(OfKinds({"sign_sector"})) = 12
        /\ Len(OfKinds({"ring_circle"})) = 3
        /\ Len(OfKinds({"degree_tick"})) = 36
        /\ OfKinds({"planet_glyph", "base_point", "aspect_line", "aspect_symbol",
                    "conjunction_arc"}) = <<>>
        /\ out[Len(out)].kind = "svg_close"

\* a finished render of a chart without planets, with highlighting on
EmptyChartRendered ==
    /\ pc = "done"
    /\ positions = <<>>
    /\ theme.highlight_conjunctions
    /\ theme.show_planet_base_points
    /\ out # <<>>

----------------------------------------------------------------------------
(* Angle (src/src/pyastro/util/angle.py).  Angle values are integers in
   hundredths of an arc second: one degree is 360000. *)

ArcDeg(d) == d * 360000
FullTurn == ArcDeg(360)
HalfTurn == ArcDeg(180)

\* Angle(value, from_0_to_360) after __post_init__
AngleSignedFromZero(value, from_0_to_360) ==
    [value |-> IF from_0_to_360 THEN value % FullTurn
               ELSE (value % FullTurn) - HalfTurn,
     from_0_to_360 |-> from_0_to_360]
AngleOf(value, from_0_to_360) ==
    [value |-> IF from_0_to_360 THEN value % FullTurn
               ELSE ((value + HalfTurn) % FullTurn) - HalfTurn,
     from_0_to_360 |-> from_0_to_360]

\* __add__ and __sub__ with an Angle or a number on the right: the value
\* handed to the constructor
AddExact(self, other) == self.value + other
SubExact(self, other) == self.value - other
\* __mul__ and __truediv__ with a number on the right
MulExact(self, k) == self.value * k
DivExact(self, k) == self.value \div k

\* the result takes the mode of the left operand
Result(self, exact) == AngleOf(exact, self.from_0_to_360)

\* round x / unit to the nearest integer, ties to even
RoundHalfEven(x, unit) ==
    LET q == x \div unit
        rem == x % unit
    IN  IF 2 * rem < unit THEN q
        ELSE IF 2 * rem > unit THEN q + 1
        ELSE IF q % 2 = 0 THEN q ELSE q + 1

\* __format__: sign, degrees, minutes and the seconds field, the latter as
\* a count of 10^-precision seconds (precision 0 is the default format,
\* precision 1 is the format_spec ".1f")
FormatFields(a, precision) ==
    LET abs_value == IF a.from_0_to_360 THEN a.value ELSE Abs(a.value)
        deg == abs_value \div ArcDeg(1)
        minutes == (abs_value - deg * ArcDeg(1)) \div 6000
        sec == (abs_value - deg * ArcDeg(1)) - minutes * 6000
    IN  [sign |-> IF ~a.from_0_to_360 /\ a.value < 0 THEN "-" ELSE "",
         deg |-> deg,
         minutes |-> minutes,
         sec |-> IF precision = 0 THEN RoundHalfEven(sec, 100)
                 ELSE RoundHalfEven(sec, 10),
         precision |-> precision]

----------------------------------------------------------------------------
(* Specification of Angle *)

MaxOps == 2     \* arithmetic operations applied in a row

\* -23.44, 720 - 23.44, 0, 180, -180, 360, 0.9999 and 10 deg 59' 59.96"
RawAngleValues ==
    {-8438400, 250761600, 0, ArcDeg(180), ArcDeg(-180), ArcDeg(360), 359964,
     ArcDeg(11) - 4}
AngleOperands == {AngleOf(ArcDeg(350), TRUE), AngleOf(ArcDeg(-20), FALSE)}
NumberOperands == {ArcDeg(-200), ArcDeg(400)}
Factors == {-2, 3}
Divisors == {2, 7}
Precisions == {0, 1}

InitAngle ==
    /\ pc = "angle_new"
    /\ run = 1
    /\ angle_self \in [value : RawAngleValues, from_0_to_360 : BOOLEAN]
    /\ angle_op = [op |-> "none", left |-> [value |-> 0, from_0_to_360 |-> TRUE],
                   exact |-> 0, n |-> 0]
    /\ angle_text = [sign |-> "", deg |-> 0, minutes |-> 0, sec |-> 0,
                     precision |-> 0]
    /\ theme = DefaultTheme
    /\ positions = <<>> /\ aspects = <<>> /\ houses = <<>>
    /\ angle = 0
    /\ IdleCluster /\ IdleDist /\ IdleDfs /\ IdleRender /\ IdleLayoutArgs
    /\ IdleThemeArgs /\ IdleArc /\ IdleUtil
    /\ prev = <<>>

AngleFrame ==
    UNCHANGED <<run, utilVars, chartVars, arcVars, themeArgs, layoutArgs, theme, angle,
                clusterVars, distVars, dfsVars, renderVars, prev>>

\* Angle(value, from_0_to_360): __post_init__ runs
AngleNew ==
    /\ pc = "angle_new"
    /\ angle_self' = AngleOf(angle_self.value, angle_self.from_0_to_360)
    /\ angle_op' = [op |-> "new", left |-> angle_self,
                    exact |-> angle_self.value, n |-> 0]
    /\ pc' = "angle"
    /\ UNCHANGED angle_text
    /\ AngleFrame

\* angle_self = angle_self <op> right
Arith(op, exact) ==
    /\ pc = "angle"
    /\ angle_op.n < MaxOps
    /\ angle_self' = Result(angle_self, exact)
    /\ angle_op' = [op |-> op, left |-> angle_self, exact |-> exact,
                    n |-> angle_op.n + 1]
    /\ UNCHANGED <<pc, angle_text>>
    /\ AngleFrame

AngleAdd ==
    \E other \in {o.value : o \in AngleOperands} \cup NumberOperands :
        Arith("add", AddExact(angle_self, other))
AngleSub ==
    \E other \in {o.value : o \in AngleOperands} \cup NumberOperands :
        Arith("sub", SubExact(angle_self, other))
AngleMul == \E k \in Factors : Arith("mul", MulExact(angle_self, k))
AngleTrueDiv == \E k \in Divisors : Arith("truediv", DivExact(angle_self, k))

\* format(angle_self, format_spec)
AngleFormat ==
    /\ pc = "angle"
    /\ \E precision \in Precisions :
           angle_text' = FormatFields(angle_self, precision)
    /\ pc' = "angle_formatted"
    /\ UNCHANGED <<angle_self, angle_op>>
    /\ AngleFrame

NextAngle ==
    \/ AngleNew \/ AngleAdd \/ AngleSub \/ AngleMul \/ AngleTrueDiv
    \/ AngleFormat

SpecAngle == InitAngle /\ [][NextAngle]_vars

----------------------------------------------------------------------------
(* Properties of Angle *)

InModeRange(a) ==
    IF a.from_0_to_360 THEN 0 <= a.value /\ a.value < FullTurn
    ELSE -HalfTurn <= a.value /\ a.value < HalfTurn

ValidSexagesimal ==
    pc = "angle_formatted" =>
        LET per_sec == IF angle_text.precision = 0 THEN 1 ELSE 10
            unit == 100 \div per_sec
            total == angle_text.deg * ArcDeg(1) + angle_text.minutes * 6000
                         + angle_text.sec * unit
        IN  /\ angle_text.minutes \in 0..59
            /\ angle_text.sec < 60 * per_sec
            /\ 2 * Abs(total - Abs(angle_self.value)) <= unit
            /\ angle_text.sign = "-" <=>
                   (~angle_self.from_0_to_360 /\ angle_self.value < 0)

----------------------------------------------------------------------------
(* parse_coord, parse_lat, parse_lon (src/src/pyastro/util/angle.py)       *)
(*                                                                         *)
(* A text is a sequence of characters.  The characters are a minus sign,   *)
(* two digits, the blank and the four upper-case hemisphere letters, so    *)
(* every number in a text is an integer; a coordinate is an integer        *)
(* number of arc seconds (deg + minutes/60 + seconds/3600 is exact).       *)

MaxTextLen == 4     \* characters in a text handed to parse_coord

HemiChars == {"N", "S", "E", "W"}
DigitChars == {"0", "3"}
Chars == {"-", " "} \cup DigitChars \cup HemiChars
CoordKinds == {"None", "lat", "lon"}

ArcSec(d) == d * 3600

\* _HEMI
HEMI(c) == IF c \in {"N", "E"} THEN 1 ELSE -1

\* m = re.search(r'([NnSsEeWw])', s): the index of the match, 0 if none
FirstHemi(s) ==
    LET found == {i \in 1..Len(s) : s[i] \in HemiChars}
    IN  IF found = {} THEN 0 ELSE CHOOSE i \in found : \A j \in found : i <= j

\* re.sub(r'[NnSsEeWw]', ' ', s) and re.sub(r'[^0-9+\-\.]+', ' ', s)
Blanked(s) ==
    [i \in 1..Len(s) |->
        IF s[i] \in DigitChars \cup {"-", "+", "."} THEN s[i] ELSE " "]

RECURSIVE SplitFrom(_, _, _, _)
SplitFrom(s, i, word, parts) ==
    LET closed == IF word = <<>> THEN parts ELSE Append(parts, word)
    IN  IF i > Len(s) THEN closed
        ELSE IF s[i] = " " THEN SplitFrom(s, i + 1, <<>>, closed)
        ELSE SplitFrom(s, i + 1, Append(word, s[i]), parts)

\* s.strip().split()
Split(s) == SplitFrom(s, 1, <<>>, <<>>)

DigitValue(c) == IF c = "3" THEN 3 ELSE 0

RECURSIVE DigitsValue(_)
DigitsValue(ds) ==
    IF ds = <<>> THEN 0
    ELSE 10 * DigitsValue(SubSeq(ds, 1, Len(ds) - 1)) + DigitValue(ds[Len(ds)])

Unsigned(part) ==
    IF part # <<>> /\ part[1] \in {"-", "+"} THEN Tail(part) ELSE part

\* float(part) returns: an optional sign and at least one digit
FloatParses(part) ==
    LET ds == Unsigned(part)
    IN  ds # <<>> /\ \A i \in 1..Len(ds) : ds[i] \in DigitChars

\* float(part); float('-0') is -0.0, which is not below 0
FloatValue(part) ==
    IF part[1] = "-" THEN -DigitsValue(Unsigned(part))
    ELSE DigitsValue(Unsigned(part))

CoordError(message) ==
    [error |-> "CoordError", message |-> message, value |-> 0, sign |-> 0]

\* _parse_angle_core(text): (value, sign) or the CoordError raised
ParseAngleCore(s) ==
    LET at == FirstHemi(s)
        hemi == IF at = 0 THEN 0 ELSE HEMI(s[at])      \* 0 is None
        parts == Split(Blanked(s))
    IN  IF parts = <<>> THEN CoordError("no components")
        ELSE IF Len(parts) > 3 THEN CoordError("too many components")
        ELSE IF ~FloatParses(parts[1]) THEN CoordError("degrees")
        ELSE
        LET num_sign == IF FloatValue(parts[1]) < 0 THEN -1 ELSE 1
            deg == Abs(FloatValue(parts[1]))
            minutes == IF Len(parts) >= 2 /\ FloatParses(parts[2])
                       THEN FloatValue(parts[2]) ELSE 0
            seconds == IF Len(parts) = 3 /\ FloatParses(parts[3])
                       THEN FloatValue(parts[3]) ELSE 0
        IN  IF Len(parts) >= 2 /\ ~FloatParses(parts[2])
            THEN CoordError("minutes")
            ELSE IF Len(parts) >= 2 /\ ~(0 <= minutes /\ minutes < 60)
            THEN CoordError("minutes out of range")
            ELSE IF Len(parts) = 3 /\ ~FloatParses(parts[3])
            THEN CoordError("seconds")
            ELSE IF Len(parts) = 3 /\ ~(0 <= seconds /\ seconds < 60)
            THEN CoordError("seconds out of range")
            ELSE IF hemi # 0 /\ num_sign # 1 /\ hemi # num_sign
            THEN CoordError("conflicting signs")
            ELSE [error |-> "", message |-> "",
                  value |-> ArcSec(deg) + 60 * minutes + seconds,
                  sign |-> IF hemi # 0 THEN hemi ELSE num_sign]

\* parse_coord(text, kind); parse_lat and parse_lon fix kind
ParseCoord(s, k) ==
    LET core == ParseAngleCore(s)
        value == core.value * core.sign
    IN  IF core.error # "" THEN [error |-> core.error, message |-> core.message,
                                 value |-> 0]
        ELSE IF k = "lat" /\ ~(-ArcSec(90) <= value /\ value <= ArcSec(90))
        THEN [error |-> "CoordError", message |-> "latitude out of range",
              value |-> 0]
        ELSE IF k = "lon" /\ ~(-ArcSec(180) <= value /\ value <= ArcSec(180))
        THEN [error |-> "CoordError", message |-> "longitude out of range",
              value |-> 0]
        ELSE [error |-> "", message |-> "", value |-> value]

Texts == UNION {[1..n -> Chars] : n \in 0..MaxTextLen}

\* the variables of the chart pipeline, unused by the utility functions
IdlePipeline ==
    /\ run = 1
    /\ positions = <<>> /\ aspects = <<>> /\ houses = <<>>
    /\ theme = DefaultTheme
    /\ IdleCluster /\ IdleDist /\ IdleDfs /\ IdleRender /\ IdleLayoutArgs
    /\ IdleArc /\ IdleAngle
    /\ prev = <<>>

PipelineFrame ==
    UNCHANGED <<run, chartVars, angleVars, arcVars, themeArgs, layoutArgs,
                theme, angle, clusterVars, distVars, dfsVars, renderVars, prev>>

InitCoord ==
    /\ pc = "parse_coord"
    /\ coord_text \in Texts
    /\ coord_kind \in CoordKinds
    /\ coord = [error |-> "", message |-> "", value |-> 0]
    /\ IdleParade /\ IdleDataclass /\ IdleDatetime
    /\ angle = 0
    /\ IdlePipeline /\ IdleThemeArgs

\* coord = parse_coord(coord_text, coord_kind)
ParseCoordCall ==
    /\ pc = "parse_coord"
    /\ coord' = ParseCoord(coord_text, coord_kind)
    /\ pc' = "coord_parsed"
    /\ UNCHANGED <<coord_text, coord_kind, parade_positions, min_planets,
                   parades, clazz, obj, dt>>
    /\ PipelineFrame

NextCoord == ParseCoordCall

SpecCoord == InitCoord /\ [][NextCoord]_vars

----------------------------------------------------------------------------
(* Properties of parse_coord *)

\* the number the text writes: its parts without the hemisphere letters
WrittenParts == Split(Blanked(coord_text))
WrittenLetters == {coord_text[i] : i \in 1..Len(coord_text)} \cap HemiChars

\* one to three numbers, minutes and seconds unsigned and below 60, at most
\* one hemisphere letter, and a magnitude inside the range of the kind
WellFormedCoord ==
    /\ Len(WrittenParts) \in 1..3
    /\ FloatParses(WrittenParts[1])
    /\ \A i \in 2..Len(WrittenParts) :
           /\ FloatParses(WrittenParts[i])
           /\ WrittenParts[i][1] # "-"
           /\ DigitsValue(WrittenParts[i]) < 60
    /\ Cardinality({i \in 1..Len(coord_text) : coord_text[i] \in HemiChars}) <= 1

WrittenMinus == WrittenParts[1][1] = "-"

WrittenMagnitude ==
    ArcSec(DigitsValue(Unsigned(WrittenParts[1])))
        + (IF Len(WrittenParts) >= 2 THEN 60 * DigitsValue(WrittenParts[2]) ELSE 0)
        + (IF Len(WrittenParts) = 3 THEN DigitsValue(WrittenParts[3]) ELSE 0)

MagnitudeInRange ==
    /\ coord_kind = "lat" => WrittenMagnitude <= ArcSec(90)
    /\ coord_kind = "lon" => WrittenMagnitude <= ArcSec(180)

\* C21: a minus sign on the degrees with a hemisphere letter is rejected
\* with CoordError exactly when the letter is N or E, and with S or W the
\* result is the negative value; an unsigned number is negative with S or W
\* and positive with N or E; without a letter the numeric sign decides, so
\* degrees written with a leading minus never give a positive result.
SignResolution ==
    (pc = "coord_parsed" /\ WellFormedCoord /\ MagnitudeInRange) =>
        /\ (WrittenMinus /\ WrittenLetters # {}) =>
               /\ coord.error = "CoordError" <=> WrittenLetters \subseteq {"N", "E"}
               /\ WrittenLetters \subseteq {"S", "W"} =>
                      coord.value = -WrittenMagnitude
        /\ (~WrittenMinus /\ WrittenLetters # {}) =>
               /\ coord.error = ""
               /\ coord.value = IF WrittenLetters \subseteq {"S", "W"}
                                THEN -WrittenMagnitude ELSE WrittenMagnitude
        /\ WrittenLetters = {} =>
               /\ coord.error = ""
               /\ coord.value = IF WrittenMinus THEN -WrittenMagnitude
                                ELSE WrittenMagnitude
        /\ WrittenMinus => ~(coord.error = "" /\ coord.value > 0)

----------------------------------------------------------------------------
(* Properties of the angle argument of chart_to_svg *)

ZodiacRingKinds == {"sign_sector", "sign_glyph", "sign_tick"}

\* C22: angle rotates only the zodiac sign ring (sign sector fills, sign
\* glyphs and the 30-degree boundary ticks); planets, house cusps and
\* aspect lines are drawn where they are drawn with angle = 0.
AngleRotatesZodiacRingOnly ==
    pc = "done" =>
        /\ OfKinds({"sign_sector"}) = SignSectorPrims(theme, angle)
        /\ OfKinds({"sign_glyph"}) = SignGlyphPrims(theme, angle)
        /\ OfKinds({"sign_tick"})
               = SelectSeq(TickPrims(theme, angle),
                           LAMBDA p : p.kind = "sign_tick")
        /\ OfKinds({"planet_glyph"})
               = PlanetGlyphPrims(theme, 0, layout, positions)
        /\ OfKinds({"base_point"}) = BasePointPrims(theme, 0, positions)
        /\ OfKinds({"houses_outer_circle", "house_cusp_line", "house_label"})
               = HousePrims(theme, 0, houses)
        /\ OfKinds({"aspect_line", "aspect_symbol"})
               = AspectLinePrims(theme, 0, positions, aspects)

----------------------------------------------------------------------------
(* find_planet_parades (src/src/pyastro/parade.py), one date of its loop.  *)
(* The longitudes of the date come from the ephemeris and are inputs.      *)

ParadePlanets == 3      \* planets of planet_list that are examined

planet_list == SubSeq(PlanetList, 1, ParadePlanets)

\* PlanetSector.add_planet
AddPlanet(sector, other, ang) ==
    IF 0 <= ang /\ ang <= sector.size
    THEN [sector EXCEPT !.fwd_planets = Append(@, other)]
    ELSE IF -sector.size <= ang /\ ang < 0
    THEN [sector EXCEPT !.back_planets = Append(@, other)]
    ELSE sector

\* the loop `for other_planet in planet_list` from its i-th planet on
RECURSIVE AddOthers(_, _, _)
AddOthers(sector, pos, i) ==
    IF i > Len(planet_list) THEN sector
    ELSE IF planet_list[i] = sector.planet THEN AddOthers(sector, pos, i + 1)
    ELSE AddOthers(AddPlanet(sector, planet_list[i],
                             pos[planet_list[i]] - sector.center),
                   pos, i + 1)

\* PlanetSector(planet, center, size) after the loop over the other planets
PlanetSector(planet, pos, size) ==
    AddOthers([planet |-> planet, center |-> pos[planet], size |-> size,
               fwd_planets |-> <<>>, back_planets |-> <<>>], pos, 1)

TotalFwd(sector) == 1 + Len(sector.fwd_planets)
TotalBack(sector) == 1 + Len(sector.back_planets)

\* PlanetSector.has_parade
HasParade(sector, min) ==
    IF TotalFwd(sector) >= min THEN "FORWARD"
    ELSE IF TotalBack(sector) >= min THEN "BACKWARD"
    ELSE "NONE"

\* tuple(sorted(...)): Planet.__lt__ compares the codes, and planet_list
\* is in the order of the codes
SortedTuple(planets) == SelectSeq(planet_list, LAMBDA p : p \in planets)

\* PlanetSector.parade_planets
ParadePlanetsOf(sector) ==
    IF TotalFwd(sector) >= TotalBack(sector)
    THEN {SortedTuple({sector.planet} \cup SeqSet(sector.fwd_planets))}
    ELSE {SortedTuple({sector.planet} \cup SeqSet(sector.back_planets))}

\* the set `parades` of one date
FindPlanetParades(pos, min, size) ==
    UNION {ParadePlanetsOf(PlanetSector(p, pos, size)) :
               p \in {q \in SeqSet(planet_list) :
                          HasParade(PlanetSector(q, pos, size), min) # "NONE"}}

ParadeLonValues == {Deg(5), Deg(20), Deg(40), Deg(350)}
MinPlanetsValues == {2, 3}
SectorValues == {Deg(20), Deg(30)}

InitParade ==
    /\ pc = "find_planet_parades"
    /\ parade_positions \in [SeqSet(planet_list) -> ParadeLonValues]
    /\ min_planets \in MinPlanetsValues
    /\ angle \in SectorValues
    /\ parades = {}
    /\ IdleCoord /\ IdleDataclass /\ IdleDatetime
    /\ IdlePipeline /\ IdleThemeArgs

\* the body of `while current_date <= end_date` for one date
FindParades ==
    /\ pc = "find_planet_parades"
    /\ parades' = FindPlanetParades(parade_positions, min_planets, angle)
    /\ pc' = "parades_found"
    /\ UNCHANGED <<coord_text, coord_kind, coord, parade_positions,
                   min_planets, clazz, obj, dt>>
    /\ PipelineFrame

NextParade == FindParades

SpecParade == InitParade /\ [][NextParade]_vars

----------------------------------------------------------------------------
(* Properties of find_planet_parades *)

\* the planets in the sector of `angle` degrees that starts at planet p
\* and runs in increasing longitude round the circle
InSectorFrom(p) ==
    {q \in SeqSet(planet_list) :
         (parade_positions[q] - parade_positions[p]) % Circle <= angle}

CircularDistance(p, q) ==
    LET d == (parade_positions[q] - parade_positions[p]) % Circle
    IN  Min(d, Circle - d)

\* C23: a date is reported if and only if at least min_planets planets lie
\* within one sector of `angle` degrees, the sector being an arc of the
\* circle that may straddle 0/360; every reported tuple has at least
\* min_planets members, all within `angle` degrees of an anchor planet.
ParadeIffSector ==
    pc = "parades_found" =>
        /\ parades # {} <=>
               \E p \in SeqSet(planet_list) :
                   Cardinality(InSectorFrom(p)) >= min_planets
        /\ \A t \in parades :
               /\ Len(t) >= min_planets
               /\ \E anchor \in SeqSet(t) :
                      \A q \in SeqSet(t) : CircularDistance(anchor, q) <= angle

----------------------------------------------------------------------------
(* datetime_from_dict (src/src/pyastro/util/parse_time.py)                 *)
(* A dict is a function from its keys to strings; "None" is None.          *)

DateValues == {"2025-09-30", "30.09.2025"}
TimeValues == {"13:30", "half past one"}
TimeZoneValues == {"+03:00", "Europe/Moscow", "Mars/Olympus"}
TimeZoneKeys == {"time_zone", "timezone", "tz"}

\* datetime.datetime.fromisoformat(date_input) returns
DateParses(date_input) == date_input = "2025-09-30"
\* parse_time_string(time_str) returns
TimeParses(time_str) == time_str = "13:30"
\* parse_timezone(tz_str) returns
TimeZoneParses(tz_str) == tz_str \in {"+03:00", "Europe/Moscow"}

\* data.get(key, default)
Get(d, key, default) == IF key \in DOMAIN d THEN d[key] ELSE default

Raise(exception) ==
    [raised |-> exception, date |-> "None", time |-> "None", tzinfo |-> "None"]

\* _datetime_from_input(date_input, time_str, tz_str)
DatetimeFromInput(date_input, time_str, tz_str) ==
    IF ~DateParses(date_input) THEN Raise("ValueError")
    ELSE IF ~TimeParses(time_str) THEN Raise("ValueError")
    ELSE IF ~TimeZoneParses(tz_str) THEN Raise("ValueError")
    ELSE [raised |-> "", date |-> date_input, time |-> time_str,
          tzinfo |-> tz_str]

\* datetime_from_dict(data)
DatetimeFromDict(d) ==
    LET date_str == Get(d, "date", "None")
        time_str == Get(d, "time", "None")
        tz_str == Get(d, "time_zone", Get(d, "timezone", Get(d, "tz", "None")))
    IN  IF date_str = "None" THEN Raise("ValueError")
        ELSE IF time_str = "None" THEN Raise("ValueError")
        ELSE IF tz_str = "None" THEN Raise("ValueError")
        ELSE IF "time_zone" \notin DOMAIN d THEN Raise("KeyError")
        ELSE DatetimeFromInput(d["date"], d["time"], d["time_zone"])

\* the dict that holds the keys of `full` whose value is not "absent"
DictOf(full) ==
    [k \in {key \in DOMAIN full : full[key] # "absent"} |-> full[k]]

InitDatetime ==
    /\ pc = "datetime_from_dict"
    /\ \E d \in DateValues \cup {"absent"}, t \in TimeValues \cup {"absent"},
          z \in [TimeZoneKeys -> TimeZoneValues \cup {"absent"}] :
           data = DictOf([k \in {"date", "time"} \cup TimeZoneKeys |->
                             IF k = "date" THEN d
                             ELSE IF k = "time" THEN t ELSE z[k]])
    /\ raised = ""
    /\ dt = Raise("")
    /\ IdleCoord /\ IdleParade /\ IdleDataclass
    /\ angle = 0
    /\ IdlePipeline

\* dt = datetime_from_dict(data)
DatetimeFromDictCall ==
    /\ pc = "datetime_from_dict"
    /\ dt' = DatetimeFromDict(data)
    /\ pc' = "datetime_built"
    /\ UNCHANGED <<coord_text, coord_kind, coord, parade_positions,
                   min_planets, parades, clazz, obj>>
    /\ PipelineFrame

NextDatetime == DatetimeFromDictCall

SpecDatetime == InitDatetime /\ [][NextDatetime]_vars

----------------------------------------------------------------------------
(* Properties of datetime_from_dict *)

GivenTimeZoneKeys == TimeZoneKeys \cap DOMAIN data

\* every value the dict holds is one its parser accepts
ValuesWellFormed ==
    /\ "date" \in DOMAIN data => DateParses(data["date"])
    /\ "time" \in DOMAIN data => TimeParses(data["time"])
    /\ \A k \in GivenTimeZoneKeys : TimeZoneParses(data[k])

\* C24: the time zone is accepted under any one of the keys 'time_zone',
\* 'timezone' and 'tz': with 'date', 'time' and at least one of them the
\* datetime is built from that time zone, and ValueError, never another
\* exception type, is raised exactly when 'date', 'time' or all three
\* time-zone keys are missing.
TimeZoneUnderAnyKey ==
    pc = "datetime_built" =>
        /\ dt.raised \in {"", "ValueError"}
        /\ ValuesWellFormed =>
               /\ dt.raised = "ValueError" <=>
                      \/ "date" \notin DOMAIN data
                      \/ "time" \notin DOMAIN data
                      \/ GivenTimeZoneKeys = {}
               /\ dt.raised = "" =>
                      /\ dt.date = data["date"]
                      /\ dt.time = data["time"]
                      /\ dt.tzinfo \in {data[k] : k \in GivenTimeZoneKeys}

----------------------------------------------------------------------------
(* Properties of the radii and of the fan of _distribute_cluster *)

\* the base radius, a non-positive one taken as 1
UsedBaseRadius == IF base_r <= 0 THEN Px(1) ELSE base_r

StackShift == (theme.planet_stack_spacing_px * 6) \div 10

\* C25: radial stacking is applied exactly when the clamped span is below
\* the required span, allow_radial_stack is true and
\* max_planet_stack_layers > 1: members alternate by index between base
\* radius - 0.6 * planet_stack_spacing_px (even index, floored at 0) and
\* base radius + 0.6 * planet_stack_spacing_px (odd index), each capped at
\* the maximum radius; otherwise every member gets
\* min(base radius, maximum radius).
RadialStackingRule ==
    pc = "distributed" =>
        \A i \in DOMAIN result :
            result[i].radius =
                IF Stacked
                THEN Min(IF (i - 1) % 2 = 0
                         THEN Max(UsedBaseRadius - StackShift, 0)
                         ELSE UsedBaseRadius + StackShift,
                         max_allowed_r)
                ELSE Min(UsedBaseRadius, max_allowed_r)

\* C26: for n >= 2 member i (0-based, in cluster order) is placed at
\* base angle - span/2 + i * span/(n-1) (mod 360), with
\* span = min((n-1) * min_gap, max_cluster_fan_deg); adjacent fan angles
\* are equally spaced, the fan is symmetric about the base angle, and when
\* the span is not clamped adjacent members are at least
\* cluster_min_pixel_gap of arc length apart at the base radius.  An
\* offset may differ from the exact quotient by the fixed-point rounding
\* of its two divisions.
FanPlacement ==
    (pc = "distributed" /\ Len(cluster) >= 2) =>
        LET n == Len(cluster)
            off(i) == SignedOffset(result[i].angle)
        IN  /\ Len(result) = n
            /\ \A i \in 1..n :
                   /\ result[i].planet = cluster[i].planet
                   /\ Abs(2 * (n - 1) * off(i)
                             - (2 * (i - 1) - (n - 1)) * ResultingSpan)
                          <= 2 * (n - 1) * i
                   /\ Abs(off(i) + off(n + 1 - i)) <= n
            /\ \A i \in 1..(n - 2) :
                   off(i + 2) - off(i + 1) = off(i + 1) - off(i)
            /\ RequiredSpan <= theme.max_cluster_fan_deg =>
                   \A i \in 1..(n - 1) :
                       (off(i + 1) - off(i) + 2) * 355 * UsedBaseRadius
                           >= theme.cluster_min_pixel_gap * 180 * 100 * 113

\* an unclamped fan of five members, 0.95 degrees apart, whose first
\* members lie below 0 and are returned just under 360
UnclampedFanAcrossZero ==
    /\ pc = "distributed"
    /\ Len(result) = 5
    /\ base_angle = Deg(1)
    /\ RequiredSpan = 380
    /\ RequiredSpan < theme.max_cluster_fan_deg
    /\ result[1].angle = Deg(359) + 10
    /\ result[5].angle = Deg(2) + 90

----------------------------------------------------------------------------
(* Specification of get_aspects alone: the call, and the call again with   *)
(* the planet positions in the opposite order                              *)

AspectPlanets == 4      \* planet positions handed to get_aspects

AspectPlanetList == <<"NORTH_NODE", "SUN", "SOUTH_NODE", "MOON", "MERCURY">>
AspectLonValues ==
    {Deg(0), Deg(5), Deg(8), Deg(8) + 1, Deg(66), Deg(187), Deg(355)}

Reverse(s) == [i \in 1..Len(s) |-> s[Len(s) + 1 - i]]

InitAspects ==
    /\ pc = "get_aspects"
    /\ run = 1
    /\ \E n \in 2..AspectPlanets : \E lons \in [1..n -> AspectLonValues] :
           positions = [i \in 1..n |-> PlanetPosition(AspectPlanetList[i], lons[i])]
    /\ aspects = <<>>
    /\ houses = <<>>
    /\ theme = DefaultTheme
    /\ angle = 0
    /\ IdleCluster /\ IdleDist /\ IdleDfs /\ IdleRender /\ IdleLayoutArgs
    /\ IdleThemeArgs /\ IdleArc /\ IdleAngle /\ IdleUtil
    /\ prev = <<>>

AspectsFrame ==
    UNCHANGED <<utilVars, houses, angleVars, arcVars, themeArgs, layoutArgs,
                theme, angle, clusterVars, distVars, dfsVars, renderVars>>

\* aspects = get_aspects(positions)
GetAspectsCall ==
    /\ pc = "get_aspects"
    /\ aspects' = GetAspects(positions)
    /\ pc' = "aspects_found"
    /\ UNCHANGED <<run, positions, prev>>
    /\ AspectsFrame

\* the same planets handed over in the opposite order
GetAspectsSwapped ==
    /\ pc = "aspects_found"
    /\ run = 1
    /\ prev' = aspects
    /\ positions' = Reverse(positions)
    /\ aspects' = <<>>
    /\ run' = 2
    /\ pc' = "get_aspects"
    /\ AspectsFrame

NextAspects == GetAspectsCall \/ GetAspectsSwapped

SpecAspects == InitAspects /\ [][NextAspects]_vars

----------------------------------------------------------------------------
(* Properties of the aspect tolerance *)

\* circular distance of two positions, in [0, 180]
Separation(p, q) ==
    LET d == (p.longitude - q.longitude) % Circle
    IN  Min(d, Circle - d)

\* the minimum of the configured orb of the kind and of the override of
\* each of the two planets that has one
Tolerance(p, q, k) ==
    LET overrides == {PlanetOrbs[x] : x \in {p.planet, q.planet} \cap DOMAIN PlanetOrbs}
        all == {AspectOrb(k)} \cup overrides
    IN  CHOOSE t \in all : \A u \in all : t <= u

InAspect(p, q, k) ==
    /\ p.planet # q.planet
    /\ p.planet # "SOUTH_NODE" /\ q.planet # "SOUTH_NODE"
    /\ Abs(Separation(p, q) - KindAngle(k)) <= Tolerance(p, q, k)

\* the aspect of kind k between the planets p and q, in either order
Between(a, p, q, k) ==
    /\ {a.planet1, a.planet2} = {p, q}
    /\ a.kind = k

\* C27: get_aspects produces an aspect for a pair and a kind if and only
\* if neither planet is the South Node, the planets differ and
\* |separation - kind angle| <= the effective tolerance, the minimum of the
\* configured orb and the override of each planet that has one; every
\* aspect has orb <= max_orb; and the aspects do not depend on which
\* planet is given first.
AspectToleranceRule ==
    pc = "aspects_found" =>
        /\ \A i \in DOMAIN positions : \A j \in DOMAIN positions :
               \A k \in SeqSet(AspectKinds) :
                   (i < j) =>
                       (InAspect(positions[i], positions[j], k) <=>
                            \E n \in DOMAIN aspects :
                                /\ aspects[n].planet1 = positions[i].planet
                                /\ aspects[n].planet2 = positions[j].planet
                                /\ aspects[n].kind = k
                                /\ aspects[n].angle
                                       = Separation(positions[i], positions[j])
                                /\ aspects[n].max_orb
                                       = Tolerance(positions[i], positions[j], k))
        /\ \A n \in DOMAIN aspects :
               /\ Abs(aspects[n].angle - KindAngle(aspects[n].kind))
                      <= aspects[n].max_orb
               /\ \E i \in DOMAIN positions : \E j \in DOMAIN positions :
                      /\ i < j
                      /\ aspects[n].planet1 = positions[i].planet
                      /\ aspects[n].planet2 = positions[j].planet
        /\ run = 2 =>
               /\ Len(aspects) = Len(prev)
               /\ \A n \in DOMAIN aspects : \E m \in DOMAIN prev :
                      /\ Between(prev[m], aspects[n].planet1, aspects[n].planet2,
                                 aspects[n].kind)
                      /\ prev[m].angle = aspects[n].angle
                      /\ prev[m].max_orb = aspects[n].max_orb

\* the Sun 8 degrees from the North Node: inside the conjunction orb of 8,
\* outside the node's 5, no aspect in either order, while the Sun and the
\* Moon are in conjunction and the South Node stands on the Moon
NodeOverrideDecides ==
    /\ pc = "aspects_found"
    /\ run = 2
    /\ \E i \in DOMAIN positions : \E j \in DOMAIN positions :
           /\ positions[i].planet = "SUN"
           /\ positions[j].planet = "NORTH_NODE"
           /\ Separation(positions[i], positions[j]) = Deg(8)
           /\ \A n \in DOMAIN aspects :
                  ~Between(aspects[n], "SUN", "NORTH_NODE", "CONJUNCTION")
    /\ \E n \in DOMAIN aspects :
           Between(aspects[n], "SUN", "MOON", "CONJUNCTION")
    /\ \E i \in DOMAIN positions : \E j \in DOMAIN positions :
           /\ positions[i].planet = "SOUTH_NODE"
           /\ positions[j].planet = "MOON"
           /\ positions[i].longitude = positions[j].longitude

----------------------------------------------------------------------------
(* Properties of the order of the fanned glyphs *)

\* where the shortest arc that covers the angles begins: at the angle
\* that follows the widest empty stretch of the circle
ArcStart(angles) ==
    LET before(x) == CHOOSE d \in {(x - y) % Circle : y \in angles \ {x}} :
                         \A y \in angles \ {x} : d <= (x - y) % Circle
    IN  IF Cardinality(angles) = 1 THEN CHOOSE x \in angles : TRUE
        ELSE CHOOSE x \in angles : \A y \in angles : before(y) <= before(x)

ClusterLongitudes(cl) == {cl[i].longitude : i \in DOMAIN cl}
FanAngles(cl) == {layout[cl[i].planet][1] : i \in DOMAIN cl}

\* position of member i along the covering arc of the true longitudes,
\* and of its glyph along the covering arc of the fan
ArcPosition(cl, i) ==
    (cl[i].longitude - ArcStart(ClusterLongitudes(cl))) % Circle
FanPosition(cl, i) ==
    (layout[cl[i].planet][1] - ArcStart(FanAngles(cl))) % Circle

\* C28: within every cluster of n >= 2 members, a member that comes
\* before another one in increasing longitude along the cluster's shortest
\* covering arc has its fanned glyph before the other's along the fan,
\* also when the cluster straddles 0/360.
FanKeepsCircularOrder ==
    pc = "laid_out" =>
        \A c \in DOMAIN clusters :
            Len(clusters[c]) >= 2 =>
                \A i \in DOMAIN clusters[c] : \A j \in DOMAIN clusters[c] :
                    ArcPosition(clusters[c], i) < ArcPosition(clusters[c], j)
                        => FanPosition(clusters[c], i) < FanPosition(clusters[c], j)

----------------------------------------------------------------------------
(* Properties of the flags of the conjunction arc *)

\* C29: for a component whose covering arc is at most 180 degrees, the
\* large-arc flag and the sweep orientation written into the path are the
\* same after the same offset is added to every member longitude, whether
\* or not the arc then crosses 0/360.
ArcFlagsRotationInvariant ==
    (/\ pc = "arc_drawn"
     /\ run = 2
     /\ (ClusterSpan(base_angles)[2] - ClusterSpan(base_angles)[1]) % Circle
            <= HalfCircle)
        => arc_flags = prev

----------------------------------------------------------------------------
(* from_dict_dataclass (util/from_dict.py).  A class is the sequence of its
   dataclass fields, every field of type int; a field holds its name, its
   default and its default_factory, each the sentinel MISSING when the
   declaration does not give it.  Values are texts tagged with their type.
   special_fields is left at its default, and int has no from_json. *)

MaxClassFields == 3     \* declared fields of the class

MISSING == "MISSING"    \* dataclasses.MISSING

FieldNames == <<"a", "b", "c", "d">>

\* the three declarations of a field: bare, = 5, = field(default_factory=list)
FieldDeclarations ==
    { [default |-> MISSING, default_factory |-> MISSING],
      [default |-> "int:5", default_factory |-> MISSING],
      [default |-> MISSING, default_factory |-> "list"] }

DataValues == {"int:1", "str:3", "str:x"}

\* default_factory()
CallFactory(factory) == "list:[]"

\* lines 65-73: isinstance(val, int), else int(val)
Coercible(val) == val \in {"int:1", "str:3"}

CoerceType(val) == IF val = "str:3" THEN "int:3" ELSE val

DeclaredNames(cls) == {cls[i].name : i \in DOMAIN cls}

FieldOf(cls, name) == cls[CHOOSE i \in DOMAIN cls : cls[i].name = name]

ValueError(message) == [error |-> "ValueError", message |-> message]

\* from_dict_dataclass(clazz, data)
FromDictDataclass(cls, d) ==
    LET processed_fields == DeclaredNames(cls) \cap DOMAIN d
        \* lines 47-54: the value an unprocessed field is set to, if any
        SetByDefault(spec) ==
            IF spec.default # spec.default_factory THEN {spec.default}
            ELSE IF spec.default_factory # "None"
                 THEN {CallFactory(spec.default_factory)}
                 ELSE {}
        set_fields ==
            processed_fields
            \cup {f \in DeclaredNames(cls) \ processed_fields :
                     SetByDefault(FieldOf(cls, f)) # {}}
            \cup DOMAIN d
    IN  \* lines 20-41
        IF \E f \in processed_fields : ~Coercible(d[f])
            THEN ValueError("Invalid type for field")
        \* lines 43-45
        ELSE IF \E f \in DeclaredNames(cls) \ processed_fields :
                   FieldOf(cls, f).default = FieldOf(cls, f).default_factory
            THEN ValueError("Missing required field")
        ELSE [f \in set_fields |->
                 IF f \in processed_fields THEN CoerceType(d[f])
                 ELSE IF f \in DOMAIN d THEN d[f]            \* lines 56-58
                 ELSE CHOOSE v \in SetByDefault(FieldOf(cls, f)) : TRUE]

InitDataclass ==
    /\ pc = "from_dict_dataclass"
    /\ \E n \in 1..MaxClassFields :
         \E decl \in [1..n -> FieldDeclarations] :
           /\ clazz = [i \in 1..n |->
                          [name |-> FieldNames[i],
                           default |-> decl[i].default,
                           default_factory |-> decl[i].default_factory]]
           /\ \E full \in [{FieldNames[i] : i \in 1..n} \cup {"extra"}
                              -> DataValues \cup {"absent"}] :
                 data = DictOf(full)
    /\ raised = ""
    /\ obj = <<>>
    /\ IdleCoord /\ IdleParade /\ IdleDatetime
    /\ angle = 0
    /\ IdlePipeline

\* obj = from_dict_dataclass(clazz, data)
FromDictDataclassCall ==
    /\ pc = "from_dict_dataclass"
    /\ obj' = FromDictDataclass(clazz, data)
    /\ pc' = "object_built"
    /\ UNCHANGED <<coord_text, coord_kind, coord, parade_positions,
                   min_planets, parades, clazz, dt>>
    /\ PipelineFrame

NextDataclass == FromDictDataclassCall

SpecDataclass == InitDataclass /\ [][NextDataclass]_vars

----------------------------------------------------------------------------
(* Properties of from_dict_dataclass *)

Raised(o) == "error" \in DOMAIN o

AbsentFields == DeclaredNames(clazz) \ DOMAIN data

HasPlainDefault(f) == FieldOf(clazz, f).default # MISSING

HasFactory(f) == FieldOf(clazz, f).default_factory # MISSING

\* every value given for a declared field can be coerced to the field's type
InputCoercible ==
    \A f \in DeclaredNames(clazz) \cap DOMAIN data : Coercible(data[f])

\* C30: from_dict_dataclass initialises every declared field: a field
\* present in the input gets the coerced input value, an absent field with
\* a plain default gets that default, an absent field declared with a
\* default_factory gets the value the factory returns (never the MISSING
\* sentinel), and an absent field with neither raises ValueError 'Missing
\* required field'.
EveryFieldInitialised ==
    (pc = "object_built" /\ InputCoercible)
        => IF \E f \in AbsentFields : ~HasPlainDefault(f) /\ ~HasFactory(f)
           THEN /\ Raised(obj)
                /\ obj.error = "ValueError"
                /\ obj.message = "Missing required field"
           ELSE /\ ~Raised(obj)
                /\ \A f \in DeclaredNames(clazz) :
                      /\ f \in DOMAIN obj
                      /\ obj[f] # MISSING
                      /\ f \in DOMAIN data => obj[f] = CoerceType(data[f])
                      /\ (f \in AbsentFields /\ HasPlainDefault(f))
                            => obj[f] = FieldOf(clazz, f).default
                      /\ (f \in AbsentFields /\ HasFactory(f))
                            => obj[f] = CallFactory(
                                            FieldOf(clazz, f).default_factory)

====
